---- MODULE Spec2Model ----
(***************************************************************************)
(* Model of doc-gen-backend/document_control/services.py: TemplateParser,  *)
(* HTMLToDocxConverter / HTMLFormattingParser and DocumentGenerator.       *)
(*                                                                         *)
(* Text is a sequence of lexemes.  The characters the code looks at one at *)
(* a time ("{", "}", "|", "_", ",", " ", the digits) are lexemes of their  *)
(* own; a word ("signature", "checkbox", "req") and an HTML tag ("<b>")    *)
(* is one lexeme, so a keyword never arises from gluing two lexemes.       *)
(***************************************************************************)
EXTENDS Integers, Sequences, FiniteSets, TLC

VARIABLES
    template,          \* the .docx file at template_path (never written)
    data,              \* DocumentGenerator.data
    document,          \* DocumentGenerator.document (python-docx object)
    error,             \* exception raised by the last operation, or "none"
    output,            \* <<doc>> returned by the last generate(), or <<>>
    op,                \* name of the last operation that ran
    sig_path,          \* argument of the last apply_signatures()
    sig_data,          \* argument of the last apply_multiple_signatures()
    replacements,      \* the replacements dicts of the last generate()
    pc,                \* position of the parse() call
    queue,             \* matches parse() has still to visit
    fields,            \* parse(): fields
    seen_vars,         \* parse(): seen_vars
    signature_groups,  \* parse(): signature_groups (insertion-ordered dict)
    result,            \* <<value>> returned by parse(), or <<>>
    exports,           \* the values returned by export_docx / export_doc (sets)
                       \* and by the export_pdf calls (in order)
    parsers,           \* TemplateParser instances with their parse() calls
    html_input,        \* the HTML fragment given to HTMLFormattingParser.feed
    html_pos,          \* number of its tokens the parser has handled
    html_parser,       \* the HTMLFormattingParser
    preview,           \* TemplatePreviewAPIView.post: one request
    rate,              \* api_rate_limit: the cache, the clock, the requests
    approval,          \* the documents' signatory records and the requests
    login              \* LoginAPIView: the user record, the clock, the log

vars == <<template, data, document, error, output, op, sig_path, sig_data,
          replacements,
          pc, queue, fields, seen_vars, signature_groups, result,
          exports, parsers, html_input, html_pos, html_parser, preview,
          rate, approval, login>>

genVars == <<data, document, error, output, op, sig_path, sig_data,
            replacements>>
parseVars == <<pc, queue, fields, seen_vars, signature_groups, result>>
htmlVars == <<html_input, html_pos, html_parser>>
webVars == <<rate, approval, login>>

None == <<>>
Some(x) == <<x>>

(***************************************************************************)
(* Bounds                                                                  *)
(***************************************************************************)
MaxPieces == 3
MaxGenPieces == 3
MaxSigRuns == 2

(***************************************************************************)
(* str methods and re functions, on lexeme sequences                       *)
(***************************************************************************)
NL == "\n"
WS == {" ", NL}
Digits == {"0", "1", "2", "3", "4", "5", "6", "7", "8", "9"}

RECURSIVE Cat(_)
Cat(ss) == IF ss = <<>> THEN <<>> ELSE Head(ss) \o Cat(Tail(ss))

Slice(s, i, j) == IF j < i THEN <<>> ELSE SubSeq(s, i, j)

OccursAt(s, pat, i) ==
    /\ i >= 1
    /\ i + Len(pat) - 1 <= Len(s)
    /\ \A k \in 1..Len(pat) : s[i + k - 1] = pat[k]

\* str.find from position i (1-based); 0 when absent
Find(s, pat, i) ==
    LET hits == {j \in i..(Len(s) - Len(pat) + 1) : OccursAt(s, pat, j)}
    IN IF hits = {} THEN 0 ELSE CHOOSE j \in hits : \A k \in hits : j <= k

\* `pat in s`
Contains(s, pat) == Find(s, pat, 1) # 0

HasTok(s, t) == \E i \in 1..Len(s) : s[i] = t

\* str.split(sep) for a one-lexeme separator
RECURSIVE Split(_, _)
Split(s, sep) ==
    LET j == Find(s, <<sep>>, 1)
    IN IF j = 0 THEN <<s>>
       ELSE <<Slice(s, 1, j - 1)>> \o Split(Slice(s, j + 1, Len(s)), sep)

\* str.strip()
RECURSIVE LStrip(_)
LStrip(s) == IF s # <<>> /\ Head(s) \in WS THEN LStrip(Tail(s)) ELSE s
RECURSIVE RStrip(_)
RStrip(s) ==
    IF s # <<>> /\ s[Len(s)] \in WS THEN RStrip(Slice(s, 1, Len(s) - 1)) ELSE s
Strip(s) == RStrip(LStrip(s))

\* str.lower()
LowerTok(t) ==
    CASE t = "ON" -> "on"
      [] t = "Checkbox" -> "checkbox"
      [] t = "REQUIRED" -> "required"
      [] t = "True" -> "true"
      [] t = "False" -> "false"
      [] t = "A" -> "a"
      [] t = "B" -> "b"
      [] t = "C" -> "c"
      [] t = "Req" -> "req"
      [] t = "Hi" -> "hi"
      [] t = "Yes" -> "yes"
      [] t = "No" -> "no"
      [] OTHER -> t
Lower(s) == [i \in 1..Len(s) |-> LowerTok(s[i])]

\* str.replace(old, new), old non-empty: leftmost non-overlapping occurrences
RECURSIVE Replace(_, _, _)
Replace(s, old, new) ==
    LET j == Find(s, old, 1)
    IN IF j = 0 THEN s
       ELSE Slice(s, 1, j - 1) \o new
            \o Replace(Slice(s, j + Len(old), Len(s)), old, new)

\* str.title() after replace('_', ' '): a word starts after a lexeme that
\* is not a word
Words == {"a", "b", "c", "n", "q", "r", "s", "x", "y", "name", "req"}
TitleTok(t) ==
    CASE t = "a" -> "A"
      [] t = "b" -> "B"
      [] t = "c" -> "C"
      [] t = "n" -> "N"
      [] t = "q" -> "Q"
      [] t = "r" -> "R"
      [] t = "s" -> "S"
      [] t = "x" -> "X"
      [] t = "y" -> "Y"
      [] t = "name" -> "Name"
      [] t = "req" -> "Req"
      [] OTHER -> t
DefaultLabel(var_name) ==
    LET spaced == [i \in 1..Len(var_name) |->
                     IF var_name[i] = "_" THEN " " ELSE var_name[i]]
    IN [i \in 1..Len(spaced) |->
          IF i > 1 /\ LowerTok(spaced[i - 1]) \in Words
          THEN LowerTok(spaced[i]) ELSE TitleTok(spaced[i])]

\* float(s): Some(n), or None for ValueError
DigitVal(t) ==
    CASE t = "0" -> 0 [] t = "1" -> 1 [] t = "2" -> 2 [] t = "3" -> 3
      [] t = "4" -> 4 [] t = "5" -> 5 [] t = "6" -> 6 [] t = "7" -> 7
      [] t = "8" -> 8 [] t = "9" -> 9
RECURSIVE DigitsVal(_, _)
DigitsVal(s, acc) ==
    IF s = <<>> THEN acc ELSE DigitsVal(Tail(s), 10 * acc + DigitVal(Head(s)))
\* a float() that gives 0 for a text that is not a number
ToFloat_ZeroForText(s) ==
    LET t == Strip(s)
    IN IF t # <<>> /\ \A i \in 1..Len(t) : t[i] \in Digits
       THEN Some(DigitsVal(t, 0)) ELSE Some(0)

\* float(s): Some(number), or None for the ValueError that parse() catches
ToFloat(s) ==
    LET t == Strip(s)
    IN IF t # <<>> /\ \A i \in 1..Len(t) : t[i] \in Digits
       THEN Some(DigitsVal(t, 0)) ELSE None

\* re.finditer(r'\{\{(.*?)\}\}', text): leftmost matches, each ending at the
\* first "}}" after its "{{"; "." does not match a newline
OPEN == <<"{", "{">>
CLOSE == <<"}", "}">>
RECURSIVE FindIterFrom(_, _)
FindIterFrom(text, i) ==
    LET j == Find(text, OPEN, i)
        k == IF j = 0 THEN 0 ELSE Find(text, CLOSE, j + 2)
    IN IF k = 0 THEN <<>>
       ELSE IF HasTok(Slice(text, j + 2, k - 1), NL)
       THEN FindIterFrom(text, j + 1)
       ELSE <<[start |-> j, stop |-> k + 1,
               content |-> Slice(text, j + 2, k - 1),
               placeholder |-> Slice(text, j, k + 1)]>>
            \o FindIterFrom(text, k + 2)
FindIter(text) == FindIterFrom(text, 1)
\* PATTERN.findall(text): the group of every match
FindAll(text) == LET ms == FindIter(text) IN [i \in 1..Len(ms) |-> ms[i].content]
HasPlaceholder(text) == FindIter(text) # <<>>

\* re.match(r'^(.+?)_(\d+)$', name): Some(prefix) or None
SigPrefix(name) ==
    LET cuts == {k \in 2..(Len(name) - 1) :
                   /\ name[k] = "_"
                   /\ \A i \in (k + 1)..Len(name) : name[i] \in Digits
                   /\ ~HasTok(Slice(name, 1, k - 1), NL)}
    IN IF cuts = {} THEN None
       ELSE Some(Slice(name, 1, (CHOOSE k \in cuts : \A c \in cuts : k <= c) - 1))

\* re.match(r'^(.+?)_(\d+)_name$', name): Some(prefix) or None
NamePrefix(name) ==
    LET n == Len(name)
    IN IF n >= 3 /\ name[n] = "name" /\ name[n - 1] = "_"
       THEN SigPrefix(Slice(name, 1, n - 2)) ELSE None

(***************************************************************************)
(* python-docx document: body paragraphs and table cells, each paragraph a *)
(* sequence of runs                                                        *)
(***************************************************************************)
Run(text) == [text |-> text, bold |-> FALSE, italic |-> FALSE,
              underline |-> FALSE, strike |-> FALSE, color |-> None,
              picture |-> None]
BoldRun(text) == [Run(text) EXCEPT !.bold = TRUE]

\* Paragraph.text
ParaText(p) == Cat([i \in 1..Len(p) |-> p[i].text])

\* the paragraphs in the order every pass of the code visits them:
\* document.paragraphs, then tables / rows / cells / cell.paragraphs
CellParas(doc) == Cat(doc.cells)
AllParas(doc) == doc.paragraphs \o CellParas(doc)
AllTexts(doc) == LET ps == AllParas(doc) IN [i \in 1..Len(ps) |-> ParaText(ps[i])]

(***************************************************************************)
(* TemplateParser.parse                                                    *)
(***************************************************************************)
Part(parts, i) == Strip(parts[i])

ParseOptions(validation) ==
    IF HasTok(validation, "options:")
    THEN LET opts == Split(Split(validation, "options:")[2], ",")
         IN [i \in 1..Len(opts) |-> Strip(opts[i])]
    ELSE <<>>

\* validation.split(key)[1].split(',')[0].split('|')[0].strip() -> float
ParseBound(field_type, validation, key) ==
    IF field_type = <<"number">> /\ HasTok(validation, key)
    THEN ToFloat(Strip(Split(Split(Split(validation, key)[2], ",")[1], "|")[1]))
    ELSE None

FieldDef(match) ==
    LET parts == Split(match, "|")
        var_name == Part(parts, 1)
        field_type == IF Len(parts) > 1 THEN Part(parts, 2) ELSE <<"text">>
        label == IF Len(parts) > 2 THEN Part(parts, 3) ELSE DefaultLabel(var_name)
        validation == IF Len(parts) > 3 THEN Part(parts, 4) ELSE <<>>
    IN [name |-> var_name,
        type |-> field_type,
        label |-> label,
        validation |-> validation,
        options |-> ParseOptions(validation),
        min_value |-> ParseBound(field_type, validation, "min:"),
        max_value |-> ParseBound(field_type, validation, "max:"),
        is_autofilled |-> HasTok(Lower(validation), "autofilled")]

IsRequired(validation) == HasTok(Lower(validation), "required")

GroupIndex(groups, prefix) ==
    LET hits == {i \in 1..Len(groups) : groups[i].prefix = prefix}
    IN IF hits = {} THEN 0 ELSE CHOOSE i \in hits : TRUE

\* AddSignature without the test of the field type
AddSignature_AnyType(groups, field_def) ==
    LET m == SigPrefix(field_def.name)
    IN IF m = None THEN groups
       ELSE LET prefix == m[1]
                created ==
                    IF GroupIndex(groups, prefix) = 0
                    THEN Append(groups,
                           [prefix |-> prefix,
                            base_field_name |-> field_def.name,
                            name_field |-> None,
                            section_label |-> field_def.label,
                            signature_fields |-> <<>>,
                            is_required |-> IsRequired(field_def.validation)])
                    ELSE groups
                g == GroupIndex(created, prefix)
            IN [created EXCEPT
                  ![g].signature_fields = Append(@, field_def),
                  ![g].section_label = field_def.label,
                  ![g].is_required = @ \/ IsRequired(field_def.validation)]

\* AddSignature that sets is_required from the member just added
AddSignature_LastRequired(groups, field_def) ==
    LET m == SigPrefix(field_def.name)
    IN IF field_def.type # <<"signature">> \/ m = None THEN groups
       ELSE LET prefix == m[1]
                created ==
                    IF GroupIndex(groups, prefix) = 0
                    THEN Append(groups,
                           [prefix |-> prefix,
                            base_field_name |-> field_def.name,
                            name_field |-> None,
                            section_label |-> field_def.label,
                            signature_fields |-> <<>>,
                            is_required |-> IsRequired(field_def.validation)])
                    ELSE groups
                g == GroupIndex(created, prefix)
            IN [created EXCEPT
                  ![g].signature_fields = Append(@, field_def),
                  ![g].section_label = field_def.label,
                  ![g].is_required = IsRequired(field_def.validation)]

\* lines 67-85: a signature field named prefix_N joins the group of prefix
AddSignature(groups, field_def) ==
    LET m == SigPrefix(field_def.name)
    IN IF field_def.type # <<"signature">> \/ m = None THEN groups
       ELSE LET prefix == m[1]
                created ==
                    IF GroupIndex(groups, prefix) = 0
                    THEN Append(groups,
                           [prefix |-> prefix,
                            base_field_name |-> field_def.name,
                            name_field |-> None,
                            section_label |-> field_def.label,
                            signature_fields |-> <<>>,
                            is_required |-> IsRequired(field_def.validation)])
                    ELSE groups
                g == GroupIndex(created, prefix)
            IN [created EXCEPT
                  ![g].signature_fields = Append(@, field_def),
                  ![g].section_label = field_def.label,
                  ![g].is_required = @ \/ IsRequired(field_def.validation)]

\* LinkNameField that keeps a name_field once it is set
LinkNameField_KeepFirst(groups, field_def) ==
    LET m == NamePrefix(field_def.name)
    IN IF field_def.type = <<"text">> /\ field_def.is_autofilled /\ m # None
          /\ GroupIndex(groups, m[1]) # 0
          /\ groups[GroupIndex(groups, m[1])].name_field = None
       THEN [groups EXCEPT ![GroupIndex(groups, m[1])].name_field =
                                Some(field_def.name)]
       ELSE groups

\* lines 88-93: an autofilled text field named prefix_N_name is linked to
\* the group of prefix when that group exists already
LinkNameField(groups, field_def) ==
    LET m == NamePrefix(field_def.name)
    IN IF field_def.type = <<"text">> /\ field_def.is_autofilled /\ m # None
          /\ GroupIndex(groups, m[1]) # 0
       THEN [groups EXCEPT ![GroupIndex(groups, m[1])].name_field =
                                Some(field_def.name)]
       ELSE groups

\* ExtractMatch without the seen_vars test
ExtractMatch_NoDedup(st, match) ==
    LET field_def == FieldDef(match)
    IN [fields |-> Append(st.fields, field_def),
        seen_vars |-> st.seen_vars \cup {field_def.name},
        signature_groups |->
            LinkNameField(AddSignature(st.signature_groups, field_def),
                          field_def)]

\* one iteration of the loop of extract_from_text
ExtractMatch(st, match) ==
    LET field_def == FieldDef(match)
    IN IF field_def.name \in st.seen_vars THEN st
       ELSE [fields |-> Append(st.fields, field_def),
             seen_vars |-> st.seen_vars \cup {field_def.name},
             signature_groups |->
                 LinkNameField(AddSignature(st.signature_groups, field_def),
                               field_def)]

\* every match of the document in scan order
AllMatches(doc) ==
    LET ts == AllTexts(doc) IN Cat([i \in 1..Len(ts) |-> FindAll(ts[i])])

ParseBegin ==
    /\ pc = "idle"
    /\ pc' = "scan"
    /\ queue' = AllMatches(template)
    /\ fields' = <<>>
    /\ seen_vars' = {}
    /\ signature_groups' = <<>>
    /\ result' = None
    /\ UNCHANGED <<template, genVars,
                 exports, parsers, htmlVars, preview, webVars>>

ParseMatch ==
    /\ pc = "scan"
    /\ queue # <<>>
    /\ LET st == ExtractMatch([fields |-> fields, seen_vars |-> seen_vars,
                               signature_groups |-> signature_groups],
                              Head(queue))
       IN /\ fields' = st.fields
          /\ seen_vars' = st.seen_vars
          /\ signature_groups' = st.signature_groups
    /\ queue' = Tail(queue)
    /\ UNCHANGED <<pc, result, template, genVars,
                 exports, parsers, htmlVars, preview, webVars>>

ParseEnd ==
    /\ pc = "scan"
    /\ queue = <<>>
    /\ pc' = "done"
    /\ result' = Some([fields |-> fields, signature_groups |-> signature_groups])
    /\ UNCHANGED <<queue, fields, seen_vars, signature_groups, template, genVars,
                 exports, parsers, htmlVars, preview, webVars>>

(***************************************************************************)
(* Templates given to the parser                                           *)
(***************************************************************************)
Ph(content) == OPEN \o content \o CLOSE

ParsePieces == {
    Ph(<<"r", "_", "1", "|", "signature", "|", "Req">>),
    Ph(<<"r", "_", "2", "|", "signature", "|", "Req", "|", "REQUIRED">>),
    Ph(<<" ", "r", "_", "1", " ", "|", "number", "|", "X", "|",
         "min:", "1", ",", "max:", "x", ",", "options:", "x", ",", " ", "y">>),
    Ph(<<"r", "_", "1", "_", "name", "|", "text", "|", "|", "autofilled">>),
    Ph(<<"r", "_", "2", "_", "name", "|", "text", "|", "|", "autofilled">>),
    Ph(<<"q", "_", "1", "|", "signature">>),
    Ph(<<"s", "|", "signature", "|", "S">>),
    Ph(<<>>)
}

SeqsUpTo(S, n) == UNION {[1..m -> S] : m \in 0..n}

\* a document of the given runs: the first k pieces in the body (one
\* paragraph when joined, else one paragraph a piece), the rest one table
\* cell each
Layout(pieces, k, joined) ==
    LET body == Slice(pieces, 1, k)
        rest == Slice(pieces, k + 1, Len(pieces))
    IN [paragraphs |->
            IF joined /\ k > 0
            THEN <<[i \in 1..k |-> Run(body[i])]>>
            ELSE [i \in 1..k |-> <<Run(body[i])>>],
        cells |-> [i \in 1..Len(rest) |-> <<<<Run(rest[i])>>>>]]

EmptyDoc == [paragraphs |-> <<>>, cells |-> <<>>]

GenIdle ==
    /\ data = <<>>
    /\ document = EmptyDoc
    /\ error = "none"
    /\ output = None
    /\ op = "init"
    /\ sig_path = ""
    /\ sig_data = <<>>
    /\ replacements = <<>>

ParseIdle ==
    /\ pc = "idle"
    /\ queue = <<>>
    /\ fields = <<>>
    /\ seen_vars = {}
    /\ signature_groups = <<>>
    /\ result = None

\* no export has been called, no parser instance of the interleaved parses
\* exists, no HTML fragment is being fed, no preview request is under way
ExportIdle == exports = [docx |-> {}, doc |-> {}, pdf |-> <<>>]
ParsersIdle == parsers = <<>>
HtmlIdle == html_input = <<>> /\ html_pos = 0 /\ html_parser = None
PreviewIdle == preview = None
WebIdle == rate = None /\ approval = None /\ login = None

InitParse ==
    /\ \E ps \in SeqsUpTo(ParsePieces, MaxPieces), j \in BOOLEAN :
         \E k \in {0, 1, Len(ps)} :
            /\ k <= Len(ps)
            /\ j => k = Len(ps)
            /\ template = Layout(ps, k, j)
    /\ GenIdle
    /\ ParseIdle
    /\ ExportIdle /\ ParsersIdle /\ HtmlIdle /\ PreviewIdle
    /\ WebIdle

NextParse == ParseBegin \/ ParseMatch \/ ParseEnd

SpecParse == InitParse /\ [][NextParse]_vars

(***************************************************************************)
(* HTMLToDocxConverter and HTMLFormattingParser.  An HTML tag is one       *)
(* lexeme; the text between two tags reaches handle_data in one piece.     *)
(***************************************************************************)
StartTags == {"<b>", "<strong>", "<i>", "<em>", "<u>", "<s>", "<strike>",
              "<del>", "<span>", "<span red>", "<span blue>",
              "<span on yellow>", "<span red on yellow>", "<span #ggg>",
              "<span style>", "<br>", "<p>"}
EndTags == {"</b>", "</strong>", "</i>", "</em>", "</u>", "</s>", "</strike>",
            "</del>", "</span>", "</p>"}
Tags == StartTags \cup EndTags

TagName(t) ==
    CASE t \in {"<b>", "</b>"} -> "b"
      [] t \in {"<strong>", "</strong>"} -> "strong"
      [] t \in {"<i>", "</i>"} -> "i"
      [] t \in {"<em>", "</em>"} -> "em"
      [] t \in {"<u>", "</u>"} -> "u"
      [] t \in {"<s>", "</s>"} -> "s"
      [] t \in {"<strike>", "</strike>"} -> "strike"
      [] t \in {"<del>", "</del>"} -> "del"
      [] t \in {"<br>"} -> "br"
      [] t \in {"<p>", "</p>"} -> "p"
      [] OTHER -> "span"

\* attrs_dict.get('style', ''); "background-color:" ends with "color:"
TagStyle(t) ==
    CASE t = "<span red>" -> <<"color:", " ", "red">>
      [] t = "<span blue>" -> <<"color:", "blue">>
      [] t = "<span #ggg>" -> <<"color:", "#ggg">>
      [] t = "<span on yellow>" -> <<"background-", "color:", " ", "yellow">>
      [] t = "<span red on yellow>" ->
             <<"color:", " ", "red", ";", " ", "background-", "color:", " ", "yellow">>
      [] OTHER -> <<>>

\* attrs_dict.get('style', '') is None for a style attribute without a value
StyleIsNone(t) == t = "<span style>"

\* re.search(key + r'\s*([^;]+)', style).group(1).strip(): Some(value) for
\* the first occurrence of key that something other than ';' follows
RECURSIVE StyleValueFrom(_, _, _)
StyleValueFrom(style, key, i) ==
    LET j == Find(style, key, i)
        rest == Slice(style, j + Len(key), Len(style))
        semi == Find(rest, <<";">>, 1)
        seg == IF semi = 0 THEN rest ELSE Slice(rest, 1, semi - 1)
    IN IF j = 0 THEN None
       ELSE IF seg = <<>> THEN StyleValueFrom(style, key, j + 1)
       ELSE Some(Strip(seg))
StyleValue(style, key) == StyleValueFrom(style, key, 1)

\* _parse_color: Some(rgb) for a colour of the table, else None
ParseColor(color_str) ==
    LET c == Lower(Strip(color_str))
    IN IF c \in {<<"red">>, <<"blue">>, <<"yellow">>, <<"black">>, <<"white">>,
                 <<"green">>, <<"cyan">>, <<"magenta">>, <<"gray">>, <<"grey">>}
       THEN Some(c) ELSE None

\* lines 249-254: int(.., 16) raises ValueError on a '#' colour of three or
\* six characters that are not all hex digits
ParseColorRaises(color_str) == Lower(Strip(color_str)) = <<"#ggg">>

\* raised: an exception has left a handler, and with it feed()
NewParser(paragraph) ==
    [paragraph |-> paragraph,
     raised |-> FALSE,
     current_run |-> 0,
     format_stack |-> <<>>,
     current_formats |-> [bold |-> FALSE, italic |-> FALSE, underline |-> FALSE,
                          strikethrough |-> FALSE, color |-> <<>>,
                          bg_color |-> <<>>]]

Push(h, type, flag, value) ==
    [h EXCEPT !.format_stack = Append(@, [type |-> type, flag |-> flag,
                                          value |-> value])]

AddBreak(h) ==
    IF h.current_run # 0
    THEN [h EXCEPT !.paragraph[h.current_run].text = Append(@, NL)]
    ELSE h

HandleStartTag(h, t) ==
    LET tag == TagName(t)
        style == TagStyle(t)
    IN CASE tag \in {"strong", "b"} ->
              [Push(h, "bold", TRUE, <<>>) EXCEPT !.current_formats.bold = TRUE]
         [] tag \in {"em", "i"} ->
              [Push(h, "italic", TRUE, <<>>) EXCEPT !.current_formats.italic = TRUE]
         [] tag = "u" ->
              [Push(h, "underline", TRUE, <<>>)
                  EXCEPT !.current_formats.underline = TRUE]
         [] tag \in {"strike", "s", "del"} ->
              [Push(h, "strikethrough", TRUE, <<>>)
                  EXCEPT !.current_formats.strikethrough = TRUE]
         [] tag = "span" /\ StyleIsNone(t) -> [h EXCEPT !.raised = TRUE]
         [] tag = "span" ->
              LET cm == IF HasTok(style, "color:")
                        THEN StyleValue(style, <<"color:">>) ELSE None
                  h1 == IF cm # None
                        THEN [Push(h, "color", FALSE, cm[1])
                                 EXCEPT !.current_formats.color = cm[1]]
                        ELSE h
                  bm == IF Contains(style, <<"background-", "color:">>)
                        THEN StyleValue(style, <<"background-", "color:">>)
                        ELSE None
              IN IF bm # None
                 THEN [Push(h1, "bg_color", FALSE, bm[1])
                          EXCEPT !.current_formats.bg_color = bm[1]]
                 ELSE h1
         [] tag = "br" -> AddBreak(h)
         [] OTHER -> h

\* _pop_format: the popped format becomes False, whatever is still open
PopFormat(h, format_type) ==
    LET n == Len(h.format_stack)
    IN IF n > 0 /\ h.format_stack[n].type = format_type
       THEN LET popped == [h EXCEPT !.format_stack = Slice(@, 1, n - 1)]
            IN CASE format_type = "bold" ->
                      [popped EXCEPT !.current_formats.bold = FALSE]
                 [] format_type = "italic" ->
                      [popped EXCEPT !.current_formats.italic = FALSE]
                 [] format_type = "underline" ->
                      [popped EXCEPT !.current_formats.underline = FALSE]
                 [] format_type = "strikethrough" ->
                      [popped EXCEPT !.current_formats.strikethrough = FALSE]
                 [] format_type = "color" ->
                      [popped EXCEPT !.current_formats.color = <<>>]
                 [] OTHER ->
                      [popped EXCEPT !.current_formats.bg_color = <<>>]
       ELSE h

HandleEndTag(h, t) ==
    LET tag == TagName(t)
        n == Len(h.format_stack)
    IN CASE tag \in {"strong", "b"} -> PopFormat(h, "bold")
         [] tag \in {"em", "i"} -> PopFormat(h, "italic")
         [] tag = "u" -> PopFormat(h, "underline")
         [] tag \in {"strike", "s", "del"} -> PopFormat(h, "strikethrough")
         [] tag = "span" ->
              IF n > 0 /\ h.format_stack[n].type \in {"color", "bg_color"}
              THEN PopFormat(h, h.format_stack[n].type)
              ELSE h
         [] tag = "p" -> AddBreak(h)
         [] OTHER -> h

HandleData(h, text) ==
    IF Strip(text) = <<>> THEN h
    ELSE LET f == h.current_formats
             rgb == IF f.color # <<>> THEN ParseColor(f.color) ELSE None
             run == [text |-> text, bold |-> f.bold, italic |-> f.italic,
                     underline |-> f.underline, strike |-> f.strikethrough,
                     color |-> rgb, picture |-> None]
         IN [h EXCEPT !.paragraph = Append(@, run),
                      !.current_run = Len(h.paragraph) + 1,
                      !.raised = f.color # <<>> /\ ParseColorRaises(f.color)]

\* HTMLParser.feed + close: tags and the text between them, in order
RECURSIVE Feed(_, _)
Feed(h, html) ==
    IF html = <<>> \/ h.raised THEN h
    ELSE IF Head(html) \in StartTags THEN Feed(HandleStartTag(h, Head(html)), Tail(html))
    ELSE IF Head(html) \in EndTags THEN Feed(HandleEndTag(h, Head(html)), Tail(html))
    ELSE LET tags == {j \in 1..Len(html) : html[j] \in Tags}
             stop == IF tags = {} THEN Len(html) + 1
                     ELSE CHOOSE j \in tags : \A k \in tags : j <= k
         IN Feed(HandleData(h, Slice(html, 1, stop - 1)),
                 Slice(html, stop, Len(html)))

\* `'<' in s`: of the lexemes only a tag holds "<" (and ">")
HasMarkup(s) == \E j \in 1..Len(s) : s[j] \in Tags

\* HTMLToDocxConverter.parse_html: the paragraph with the runs added (no
\* value of the generator specifications holds a colour on which
\* _parse_color raises)
ParseHtml(paragraph, html_content) ==
    IF html_content = <<>> \/ Strip(html_content) = <<>> THEN paragraph
    ELSE IF ~HasMarkup(html_content) THEN Append(paragraph, Run(html_content))
    ELSE Feed(NewParser(paragraph), html_content).paragraph

(***************************************************************************)
(* DocumentGenerator                                                       *)
(***************************************************************************)
\* input values: str, bool and int
StrVal(s) == [t |-> "str", s |-> s, b |-> FALSE, n |-> 0]
BoolVal(b) == [t |-> "bool", s |-> <<>>, b |-> b, n |-> 0]
IntVal(n) == [t |-> "int", s |-> <<>>, b |-> FALSE, n |-> n]

DigitStr(n) ==
    CASE n = 0 -> "0" [] n = 1 -> "1" [] n = 2 -> "2" [] n = 3 -> "3"
      [] n = 4 -> "4" [] n = 5 -> "5" [] n = 6 -> "6" [] n = 7 -> "7"
      [] n = 8 -> "8" [] n = 9 -> "9"
RECURSIVE IntStr(_)
IntStr(n) == IF n < 10 THEN <<DigitStr(n)>>
             ELSE Append(IntStr(n \div 10), DigitStr(n % 10))

\* str(value)
PyStr(x) ==
    CASE x.t = "str" -> x.s
      [] x.t = "bool" -> IF x.b THEN <<"True">> ELSE <<"False">>
      [] OTHER -> IntStr(x.n)

\* dict[key] = value on an insertion-ordered dict
DictSet(d, key, value) ==
    LET hits == {i \in 1..Len(d) : d[i].k = key}
    IN IF hits = {} THEN Append(d, [k |-> key, v |-> value])
       ELSE [d EXCEPT ![CHOOSE i \in hits : TRUE].v = value]

DictGet(d, key) == d[CHOOSE i \in 1..Len(d) : d[i].k = key].v
DictHas(d, key) == \E i \in 1..Len(d) : d[i].k = key

\* lines 443-445 (and 369-371, 390-392)
VarName(content) == Strip(Split(content, "|")[1])
FieldType(content) ==
    LET parts == Split(content, "|")
    IN IF Len(parts) > 1 THEN Strip(parts[2]) ELSE <<"text">>

\* CheckboxValue comparing the value as given, not lower-cased
CheckboxValue_CaseSensitive(value) ==
    IF value \in {<<"true">>, <<"1">>, <<"yes">>, <<"on">>}
    THEN <<"Yes">> ELSE <<"No">>

\* lines 455-460
CheckboxValue(value) ==
    IF Lower(value) \in {<<"true">>, <<"1">>, <<"yes">>, <<"on">>}
    THEN <<"Yes">> ELSE <<"No">>

\* lines 452-465: the value that stands in for one placeholder
ReplacementFor(content, d) ==
    IF VarName(content) \in DOMAIN d
    THEN LET value == PyStr(d[VarName(content)])
         IN IF HasTok(Lower(content), "checkbox")
            THEN CheckboxValue(value) ELSE value
    ELSE <<>>

\* Replacements that does not pass over the signature placeholders
RECURSIVE Replacements_NoSignatureSkip(_, _, _)
Replacements_NoSignatureSkip(matches, d, acc) ==
    IF matches = <<>> THEN acc
    ELSE Replacements_NoSignatureSkip(Tail(matches), d,
             DictSet(acc, Head(matches).placeholder,
                     ReplacementFor(Head(matches).content, d)))

\* lines 441-465: the replacements dict of one paragraph
RECURSIVE Replacements(_, _, _)
Replacements(matches, d, acc) ==
    IF matches = <<>> THEN acc
    ELSE LET m == Head(matches)
         IN IF FieldType(m.content) = <<"signature">>
            THEN Replacements(Tail(matches), d, acc)
            ELSE Replacements(Tail(matches), d,
                              DictSet(acc, m.placeholder,
                                      ReplacementFor(m.content, d)))

\* ApplyReplacements that stops after the first entry
ApplyReplacements_FirstOnly(text, repl) ==
    IF repl = <<>> THEN text ELSE Replace(text, Head(repl).k, Head(repl).v)

\* lines 471-473: one str.replace per entry, in dict order
RECURSIVE ApplyReplacements(_, _)
ApplyReplacements(text, repl) ==
    IF repl = <<>> THEN text
    ELSE ApplyReplacements(Replace(text, Head(repl).k, Head(repl).v), Tail(repl))

\* _replace_in_paragraph without its early returns: the paragraph is always
\* cleared and rewritten as one run
ReplaceInParagraph_AlwaysRewrite(paragraph, d) ==
    LET original_text == ParaText(paragraph)
        repl == Replacements(FindIter(original_text), d, <<>>)
        new_text == ApplyReplacements(original_text, repl)
        has_html == \E i \in 1..Len(repl) : HasMarkup(repl[i].v)
    IN IF has_html THEN ParseHtml(<<>>, new_text)
       ELSE IF new_text # <<>> THEN <<Run(new_text)>>
       ELSE <<>>

\* _replace_in_paragraph: the runs of the paragraph afterwards
ReplaceInParagraph(paragraph, d) ==
    LET original_text == ParaText(paragraph)
        repl == Replacements(FindIter(original_text), d, <<>>)
        new_text == ApplyReplacements(original_text, repl)
        has_html == \E i \in 1..Len(repl) : HasMarkup(repl[i].v)
    IN IF repl = <<>> \/ new_text = original_text THEN paragraph
       ELSE IF has_html THEN ParseHtml(<<>>, new_text)
       ELSE IF new_text # <<>> THEN <<Run(new_text)>>
       ELSE <<>>

\* the document with its paragraphs replaced by ps (same shape)
RECURSIVE Regroup(_, _)
Regroup(shape, ps) ==
    IF shape = <<>> THEN <<>>
    ELSE <<Slice(ps, 1, Len(Head(shape)))>>
         \o Regroup(Tail(shape), Slice(ps, Len(Head(shape)) + 1, Len(ps)))
WithParas(doc, ps) ==
    LET n == Len(doc.paragraphs)
    IN [paragraphs |-> Slice(ps, 1, n),
        cells |-> Regroup(doc.cells, Slice(ps, n + 1, Len(ps)))]

\* generate(): every body paragraph, then every cell paragraph; save
Generate ==
    /\ LET ps == AllParas(document)
       IN /\ document' = WithParas(document,
                             [i \in 1..Len(ps) |-> ReplaceInParagraph(ps[i], data)])
          /\ replacements' =
                 [i \in 1..Len(ps) |->
                     Replacements(FindIter(ParaText(ps[i])), data, <<>>)]
    /\ output' = Some(document')
    /\ error' = "none"
    /\ op' = "generate"
    /\ UNCHANGED <<template, data, sig_path, sig_data, parseVars,
                 exports, parsers, htmlVars, preview, webVars>>

(***************************************************************************)
(* Signature passes.  A pass works on st = [ps, err]: the paragraphs in    *)
(* visiting order and the exception that has ended the pass, if any.       *)
(***************************************************************************)
\* the names bound in the module: lines 1-7 and the classes of the module
ModuleNames == {"os", "re", "HTMLParser", "BytesIO", "Document", "RGBColor",
                "TemplateParser", "HTMLToDocxConverter", "HTMLFormattingParser",
                "DocumentGenerator"}

\* the files os.path.exists() finds
ExistingFiles == {"/a.png", "/b.png"}
PathExists(path) == path \in ExistingFiles

SignatureWidthInches == 2

\* paragraph.add_run().add_picture(path, width=Inches(2)): the run is added,
\* then the arguments are evaluated, then the picture is put in the run
AddPictureRun(st, i, path) ==
    LET added == [st EXCEPT !.ps[i] = Append(@, Run(<<>>))]
    IN IF "Inches" \notin ModuleNames
       THEN [added EXCEPT !.err = "NameError"]
       ELSE [added EXCEPT !.ps[i][Len(added.ps[i])].picture =
                Some([path |-> path, width |-> SignatureWidthInches])]

\* the first run whose text holds the placeholder, or 0
RunHolding(paragraph, placeholder) ==
    LET hits == {r \in 1..Len(paragraph) : Contains(paragraph[r].text, placeholder)}
    IN IF hits = {} THEN 0 ELSE CHOOSE r \in hits : \A q \in hits : r <= q

\* run.text = run.text.replace(placeholder, '')
ClearPlaceholder(st, i, r, placeholder) ==
    [st EXCEPT !.ps[i][r].text = Replace(@, placeholder, <<>>),
               !.ps[i][r].picture = None]

\* lines 373-382
InsertSignature(st, i, placeholder, path) ==
    LET r == RunHolding(st.ps[i], placeholder)
    IN IF r = 0 THEN st
       ELSE AddPictureRun(ClearPlaceholder(st, i, r, placeholder), i, path)

\* _replace_signature_in_paragraph, match by match
RECURSIVE ReplaceSignatureMatches(_, _, _, _)
ReplaceSignatureMatches(st, i, matches, path) ==
    IF matches = <<>> \/ st.err # "none" THEN st
    ELSE LET m == Head(matches)
             next == IF FieldType(m.content) = <<"signature">>
                     THEN InsertSignature(st, i, m.placeholder, path)
                     ELSE st
         IN ReplaceSignatureMatches(next, i, Tail(matches), path)

ReplaceSignatureInParagraph(st, i, path) ==
    ReplaceSignatureMatches(st, i, FindIter(ParaText(st.ps[i])), path)

RECURSIVE ApplySignaturesFrom(_, _, _)
ApplySignaturesFrom(st, i, path) ==
    IF i > Len(st.ps) \/ st.err # "none" THEN st
    ELSE ApplySignaturesFrom(ReplaceSignatureInParagraph(st, i, path), i + 1, path)

\* apply_signatures(signature_path); None is the empty path
ApplySignatures(signature_path) ==
    /\ LET st == IF signature_path = "" \/ ~PathExists(signature_path)
                 THEN [ps |-> AllParas(document), err |-> "none"]
                 ELSE ApplySignaturesFrom([ps |-> AllParas(document), err |-> "none"],
                                          1, signature_path)
       IN /\ document' = WithParas(document, st.ps)
          /\ error' = st.err
    /\ op' = "apply_signatures"
    /\ sig_path' = signature_path
    /\ UNCHANGED <<template, data, output, sig_data, replacements, parseVars,
                 exports, parsers, htmlVars, preview, webVars>>

\* lines 412-416 (and 424-427): a picture run and a two-space run for every
\* path that exists
RECURSIVE AddSignatureImages(_, _, _)
AddSignatureImages(st, i, paths) ==
    IF paths = <<>> \/ st.err # "none" THEN st
    ELSE IF PathExists(Head(paths))
    THEN LET pic == AddPictureRun(st, i, Head(paths))
             spaced == IF pic.err # "none" THEN pic
                       ELSE [pic EXCEPT !.ps[i] = Append(@, Run(<<" ", " ">>))]
         IN AddSignatureImages(spaced, i, Tail(paths))
    ELSE AddSignatureImages(st, i, Tail(paths))

\* lines 406-417 (and 420-428)
InsertSignatures(st, i, placeholder, paths) ==
    LET r == RunHolding(st.ps[i], placeholder)
    IN IF r = 0 THEN st
       ELSE AddSignatureImages(ClearPlaceholder(st, i, r, placeholder), i, paths)

\* lines 397-428: the entries of signature_data in dict order
RECURSIVE ForEachSignatureEntry(_, _, _, _)
ForEachSignatureEntry(st, i, m, entries) ==
    IF entries = <<>> \/ st.err # "none" THEN st
    ELSE LET field_name == Head(entries).k
             field_prefix == SigPrefix(field_name)
             var_prefix == SigPrefix(VarName(m.content))
             next ==
                 IF field_prefix # None
                 THEN IF var_prefix # None /\ var_prefix[1] = field_prefix[1]
                      THEN InsertSignatures(st, i, m.placeholder, Head(entries).v)
                      ELSE st
                 ELSE IF field_name = VarName(m.content)
                      THEN InsertSignatures(st, i, m.placeholder, Head(entries).v)
                      ELSE st
         IN ForEachSignatureEntry(next, i, m, Tail(entries))

RECURSIVE ReplaceMultipleMatches(_, _, _, _)
ReplaceMultipleMatches(st, i, matches, signature_data) ==
    IF matches = <<>> \/ st.err # "none" THEN st
    ELSE LET m == Head(matches)
             next == IF FieldType(m.content) = <<"signature">>
                     THEN ForEachSignatureEntry(st, i, m, signature_data)
                     ELSE st
         IN ReplaceMultipleMatches(next, i, Tail(matches), signature_data)

ReplaceMultipleSignaturesInParagraph(st, i, signature_data) ==
    ReplaceMultipleMatches(st, i, FindIter(ParaText(st.ps[i])), signature_data)

RECURSIVE ApplyMultipleFrom(_, _, _)
ApplyMultipleFrom(st, i, signature_data) ==
    IF i > Len(st.ps) \/ st.err # "none" THEN st
    ELSE ApplyMultipleFrom(ReplaceMultipleSignaturesInParagraph(st, i, signature_data),
                           i + 1, signature_data)

\* apply_multiple_signatures(signature_data)
ApplyMultipleSignatures(signature_data) ==
    /\ LET st == IF signature_data = <<>>
                 THEN [ps |-> AllParas(document), err |-> "none"]
                 ELSE ApplyMultipleFrom([ps |-> AllParas(document), err |-> "none"],
                                        1, signature_data)
       IN /\ document' = WithParas(document, st.ps)
          /\ error' = st.err
    /\ op' = "apply_multiple_signatures"
    /\ sig_data' = signature_data
    /\ UNCHANGED <<template, data, output, sig_path, replacements, parseVars,
                 exports, parsers, htmlVars, preview, webVars>>

(***************************************************************************)
(* Templates and input data given to the generator                         *)
(***************************************************************************)
PhCheckbox == Ph(<<"c", "|", "checkbox", "|", "C">>)
PhSignature == Ph(<<"r", "_", "1", "|", "signature", "|", "Req">>)

GenPieces == {
    Run(Ph(<<"a">>)),
    Run(PhCheckbox),
    Run(Ph(<<"b", "|", "text", "|", "B", "|", "Checkbox">>)),
    Run(PhSignature),
    Run(OPEN),
    BoldRun(<<"Hi", " ">>)
}

KeyA == <<"a">>
KeyB == <<"b">>
KeyC == <<"c">>
KeyR1 == <<"r", "_", "1">>

GenData == {
    <<>>,
    (KeyA :> StrVal(<<"v">>)) @@ (KeyB :> StrVal(<<"yes">>))
        @@ (KeyC :> StrVal(<<"on">>)) @@ (KeyR1 :> StrVal(<<"x">>)),
    (KeyA :> StrVal(<<"v">>)) @@ (KeyB :> BoolVal(TRUE)) @@ (KeyC :> StrVal(<<"ON">>)),
    (KeyA :> StrVal(PhCheckbox)) @@ (KeyB :> StrVal(<<"1">>))
        @@ (KeyC :> StrVal(<<"banana">>)),
    (KeyA :> StrVal(<<"<b>", "x", "</b>">>)) @@ (KeyB :> IntVal(1))
        @@ (KeyC :> StrVal(<<"false">>)),
    (KeyA :> StrVal(<<>>)) @@ (KeyC :> StrVal(<<>>))
}

\* the runs in one body paragraph, or the first run in a body paragraph and
\* the others in the paragraph of a table cell
RunLayout(runs, in_table) ==
    IF in_table /\ runs # <<>>
    THEN [paragraphs |-> <<<<Head(runs)>>>>, cells |-> <<<<Tail(runs)>>>>]
    ELSE [paragraphs |-> <<runs>>, cells |-> <<>>]

\* DocumentGenerator(template_path, data)
NewGenerator(d) ==
    /\ data = d
    /\ document = template
    /\ error = "none"
    /\ output = None
    /\ op = "init"
    /\ sig_path = ""
    /\ sig_data = <<>>
    /\ replacements = <<>>

InitGen ==
    /\ \E runs \in SeqsUpTo(GenPieces, MaxGenPieces), t \in BOOLEAN :
          template = RunLayout(runs, t)
    /\ \E d \in GenData : NewGenerator(d)
    /\ ParseIdle
    /\ ExportIdle /\ ParsersIdle /\ HtmlIdle /\ PreviewIdle
    /\ WebIdle

NextGen == Generate

SpecGen == InitGen /\ [][NextGen]_vars

SigPieces == {
    Run(PhSignature),
    Run(Ph(<<"r", "_", "2", "|", "signature", "|", "Req">>)),
    Run(Ph(<<"s", "|", "signature">>)),
    Run(Ph(<<"a">>)),
    Run(<<"{", "{", "r", "_", "1", "|">>),
    Run(<<"signature", "}", "}">>),
    BoldRun(<<"Hi", " ">>)
}

SigPaths == {"", "/a.png", "/missing.png"}

KeyR2 == <<"r", "_", "2">>
KeyS == <<"s">>
Entry(k, v) == [k |-> k, v |-> v]

SigDatas == {
    <<>>,
    <<Entry(KeyR1, <<"/a.png", "/b.png">>)>>,
    <<Entry(KeyR1, <<"/missing.png", "/a.png">>)>>,
    <<Entry(KeyR1, <<"/missing.png">>)>>,
    <<Entry(KeyS, <<"/a.png">>)>>,
    <<Entry(KeyR1, <<"/a.png">>), Entry(KeyR2, <<"/b.png">>)>>
}

InitSig ==
    /\ \E runs \in SeqsUpTo(SigPieces, MaxSigRuns), t \in BOOLEAN :
          template = RunLayout(runs, t)
    /\ NewGenerator(<<>>)
    /\ ParseIdle
    /\ ExportIdle /\ ParsersIdle /\ HtmlIdle /\ PreviewIdle
    /\ WebIdle

NextSig ==
    \/ \E path \in SigPaths : ApplySignatures(path)
    \/ \E sd \in SigDatas : ApplyMultipleSignatures(sd)

SpecSig == InitSig /\ [][NextSig]_vars

(***************************************************************************)
(* Claims on TemplateParser.parse                                          *)
(***************************************************************************)
NameOf(match) == Strip(Split(match, "|")[1])

\* the definitions of the first occurrence of every name
FirstDefs(occ) ==
    LET IsFirst(i) == \A j \in 1..(i - 1) : NameOf(occ[j]) # NameOf(occ[i])
        F[i \in 0..Len(occ)] ==
            IF i = 0 THEN <<>>
            ELSE IF IsFirst(i) THEN Append(F[i - 1], FieldDef(occ[i]))
            ELSE F[i - 1]
    IN F[Len(occ)]

\* the signature groups of a list of definitions without repeated names
GroupsFrom(defs) ==
    LET G[i \in 0..Len(defs)] ==
            IF i = 0 THEN <<>>
            ELSE LinkNameField(AddSignature(G[i - 1], defs[i]), defs[i])
    IN G[Len(defs)]

\* C2: parse() returns one field definition per distinct placeholder name, in
\* first-seen order, with the metadata of the first occurrence in scan order
\* (body paragraphs, then table cells); the occurrences of a name after its
\* first change nothing: the fields and the signature groups are those of the
\* first occurrences alone.
C2_FirstOccurrenceWins ==
    pc = "done" =>
        LET firsts == FirstDefs(AllMatches(template))
        IN /\ result = Some([fields |-> firsts,
                             signature_groups |-> GroupsFrom(firsts)])
           /\ \A i, j \in 1..Len(firsts) : i # j => firsts[i].name # firsts[j].name

\* a name occurs twice with different metadata and the parse has finished
C2_Witness ==
    /\ pc = "done"
    /\ LET occ == AllMatches(template)
       IN \E i, j \in 1..Len(occ) :
             /\ i < j
             /\ NameOf(occ[i]) = NameOf(occ[j])
             /\ FieldDef(occ[i]).type # FieldDef(occ[j]).type
             /\ FieldDef(occ[i]).validation # FieldDef(occ[j]).validation
             /\ FieldDef(occ[j]).type = <<"signature">>
             /\ Len(result[1].fields) < Len(occ)

\* name = P_<digits> with P non-empty
NamedWithSuffix(name, P) ==
    /\ Len(P) >= 1
    /\ Len(name) >= Len(P) + 2
    /\ Slice(name, 1, Len(P)) = P
    /\ name[Len(P) + 1] = "_"
    /\ \A i \in (Len(P) + 2)..Len(name) : name[i] \in Digits

IsSigMember(f, P) == f.type = <<"signature">> /\ NamedWithSuffix(f.name, P)

Members(fs, P) == LET Test(f) == IsSigMember(f, P) IN SelectSeq(fs, Test)

GroupsOf(groups, P) == {g \in 1..Len(groups) : groups[g].prefix = P}

\* C3: one signature group per distinct prefix P that has a signature field
\* named P_<digits>; its signature_fields are exactly those fields in
\* first-seen order and base_field_name is the first of them; a signature
\* field without numeric suffix or a field of another type is in no group.
C3_SignatureGroups ==
    pc = "done" =>
        LET fs == result[1].fields
            gs == result[1].signature_groups
        IN /\ \A i \in 1..Len(fs) : \A k \in 1..Len(fs[i].name) :
                 LET P == Slice(fs[i].name, 1, k)
                 IN Members(fs, P) # <<>> =>
                      /\ Cardinality(GroupsOf(gs, P)) = 1
                      /\ \A g \in GroupsOf(gs, P) :
                            /\ gs[g].signature_fields = Members(fs, P)
                            /\ gs[g].base_field_name = Members(fs, P)[1].name
           /\ \A g \in 1..Len(gs) :
                 /\ Members(fs, gs[g].prefix) # <<>>
                 /\ \A m \in 1..Len(gs[g].signature_fields) :
                       IsSigMember(gs[g].signature_fields[m], gs[g].prefix)

\* two prefixes with a group each, one of two members, next to a signature
\* field without suffix or a suffixed field of another type
C3_Witness ==
    /\ pc = "done"
    /\ LET fs == result[1].fields
           gs == result[1].signature_groups
       IN /\ \E g \in 1..Len(gs) : Len(gs[g].signature_fields) = 2
          /\ \E i \in 1..Len(fs) :
                \/ fs[i].type = <<"signature">> /\ SigPrefix(fs[i].name) = None
                \/ fs[i].type # <<"signature">> /\ SigPrefix(fs[i].name) # None

C3_WitnessTwoGroups ==
    pc = "done" /\ Len(result[1].signature_groups) = 2

\* name = P_<digits>_name
NamedNameOf(name, P) ==
    /\ Len(name) >= Len(P) + 4
    /\ name[Len(name)] = "name"
    /\ name[Len(name) - 1] = "_"
    /\ NamedWithSuffix(Slice(name, 1, Len(name) - 2), P)

IsNameField(f, P) ==
    f.type = <<"text">> /\ f.is_autofilled /\ NamedNameOf(f.name, P)

FirstMember(fs, P) ==
    CHOOSE i \in 1..Len(fs) :
        IsSigMember(fs[i], P) /\ \A j \in 1..(i - 1) : ~IsSigMember(fs[j], P)

\* the name fields of P scanned after the first signature field of P
LinkedNames(fs, P) ==
    {i \in 1..Len(fs) : IsNameField(fs[i], P) /\ i > FirstMember(fs, P)}

\* C4 as stated: a name field scanned after a signature field of its prefix
\* is the group's name_field; when the name field is scanned before every
\* signature field of its prefix the group's name_field is None at the end.
C4_AsStated ==
    pc = "done" =>
        LET fs == result[1].fields
            gs == result[1].signature_groups
        IN \A g \in 1..Len(gs) : \A i \in 1..Len(fs) :
              IsNameField(fs[i], gs[g].prefix) =>
                 IF i > FirstMember(fs, gs[g].prefix)
                 THEN gs[g].name_field = Some(fs[i].name)
                 ELSE gs[g].name_field = None

\* C4 (amended): visiting a name field links it when a signature field of its
\* prefix was scanned before it, so that the group's name_field is always the
\* last name field scanned after the group's first signature field, and None
\* when there is none; a name field scanned before every signature field of
\* its prefix is never the group's name_field.
C4_NameFieldLinkage ==
    pc # "idle" =>
        \A g \in 1..Len(signature_groups) :
           LET P == signature_groups[g].prefix
               linked == LinkedNames(fields, P)
           IN /\ linked = {} => signature_groups[g].name_field = None
              /\ linked # {} =>
                    signature_groups[g].name_field =
                        Some(fields[CHOOSE i \in linked :
                                       \A j \in linked : j <= i].name)
              /\ \A i \in 1..Len(fields) :
                    (IsNameField(fields[i], P) /\ i < FirstMember(fields, P))
                       => signature_groups[g].name_field # Some(fields[i].name)

\* a name field in the body before the signature field in a table stays
\* unlinked, and a name field after its signature field is linked
C4_WitnessUnlinked ==
    /\ pc = "done"
    /\ Len(template.paragraphs) = 1 /\ Len(template.cells) >= 1
    /\ \E g \in 1..Len(signature_groups) :
          /\ signature_groups[g].name_field = None
          /\ \E i \in 1..Len(fields) :
                IsNameField(fields[i], signature_groups[g].prefix)

C4_Witness ==
    /\ pc = "done"
    /\ \E g \in 1..Len(signature_groups) :
          /\ signature_groups[g].name_field # None
          /\ \E i \in 1..Len(fields) :
                /\ IsNameField(fields[i], signature_groups[g].prefix)
                /\ i < FirstMember(fields, signature_groups[g].prefix)

(***************************************************************************)
(* Claims on DocumentGenerator.generate                                    *)
(***************************************************************************)
Braces == {"{", "}"}
HasBrace(text) == \E i \in 1..Len(text) : text[i] \in Braces

\* every placeholder of every paragraph of a document
DocMatches(doc) ==
    LET ts == AllTexts(doc) IN Cat([i \in 1..Len(ts) |-> FindIter(ts[i])])

NoPlaceholderLeft(doc) ==
    \A i \in 1..Len(AllTexts(doc)) : ~HasPlaceholder(AllTexts(doc)[i])

AllSupplied ==
    LET ms == DocMatches(template)
    IN \A i \in 1..Len(ms) : VarName(ms[i].content) \in DOMAIN data

\* C1 as stated: with a value for every placeholder name, the output of
\* generate() holds no {{...}} token.
C1_AsStated ==
    (op = "generate" /\ AllSupplied) => NoPlaceholderLeft(output[1])

PlainlySupplied ==
    LET ms == DocMatches(template)
    IN \A i \in 1..Len(ms) :
          /\ FieldType(ms[i].content) # <<"signature">>
          /\ ~HasBrace(ms[i].content)
          /\ VarName(ms[i].content) \in DOMAIN data
          /\ ~HasBrace(PyStr(data[VarName(ms[i].content)]))
          /\ ~HasMarkup(PyStr(data[VarName(ms[i].content)]))

\* C1 (amended): when no placeholder of the template is a signature
\* placeholder or holds a brace in its content, every placeholder name has a
\* value, and none of these values holds a brace or markup, the text of the
\* output of generate() (body paragraphs and table cells) holds no {{...}}.
C1_NoPlaceholderLeft ==
    (op = "generate" /\ PlainlySupplied) => NoPlaceholderLeft(output[1])

\* a template of a text and a checkbox placeholder, generated
C1_Witness ==
    /\ op = "generate"
    /\ PlainlySupplied
    /\ Len(DocMatches(template)) >= 2
    /\ \E i \in 1..Len(DocMatches(template)) :
          DocMatches(template)[i].placeholder = PhCheckbox
    /\ document # template
    /\ output = Some(document)

\* the claim's checkbox placeholders: type checkbox, or checkbox in the
\* validation part
IsCheckboxPlaceholder(content) ==
    LET parts == Split(content, "|")
    IN \/ Len(parts) > 1 /\ Lower(Strip(parts[2])) = <<"checkbox">>
       \/ Len(parts) > 3 /\ HasTok(Lower(parts[4]), "checkbox")

YesOrNo(value) ==
    IF \/ Lower(PyStr(value)) = <<"true">>
       \/ Lower(PyStr(value)) = <<"1">>
       \/ Lower(PyStr(value)) = <<"yes">>
       \/ Lower(PyStr(value)) = <<"on">>
    THEN <<"Yes">> ELSE <<"No">>

\* C5: generate() renders a checkbox placeholder whose name is a key of the
\* input data as 'Yes' exactly when str(value).lower() is one of 'true', '1',
\* 'yes', 'on', and as 'No' for every other value.
C5_CheckboxYesNo ==
    [][op' = "generate" =>
        \A i \in 1..Len(AllParas(document)) :
           LET before == ParaText(AllParas(document)[i])
               after == ParaText(AllParas(document')[i])
               ms == FindIter(before)
           IN \A k \in 1..Len(ms) :
                 (/\ IsCheckboxPlaceholder(ms[k].content)
                  /\ FieldType(ms[k].content) # <<"signature">>
                  /\ VarName(ms[k].content) \in DOMAIN data)
                 => /\ DictHas(replacements'[i], ms[k].placeholder)
                    /\ DictGet(replacements'[i], ms[k].placeholder)
                         = YesOrNo(data[VarName(ms[k].content)])
                    /\ Len(ms) = 1 =>
                         after = Slice(before, 1, ms[k].start - 1)
                                 \o YesOrNo(data[VarName(ms[k].content)])
                                 \o Slice(before, ms[k].stop + 1, Len(before))
    ]_vars

\* 'ON' and True have been rendered as Yes, next to a value rendered as No
C5_Witness ==
    /\ op = "generate"
    /\ KeyC \in DOMAIN data /\ PyStr(data[KeyC]) = <<"ON">>
    /\ KeyB \in DOMAIN data /\ PyStr(data[KeyB]) = <<"True">>
    /\ \E i \in 1..Len(replacements) :
          /\ Len(replacements[i]) = 2
          /\ \A k \in 1..2 : replacements[i][k].v = <<"Yes">>
    /\ ParaText(AllParas(document)[1]) = <<"Yes", "Yes">>

C5_WitnessNo ==
    /\ op = "generate"
    /\ KeyC \in DOMAIN data /\ PyStr(data[KeyC]) = <<"banana">>
    /\ ParaText(AllParas(document)[1]) = <<"No">>

\* the text with every placeholder replaced where it stands: a signature
\* placeholder by itself, any other by ReplacementFor of its own content
RECURSIVE SubstituteInPlace(_, _, _, _)
SubstituteInPlace(text, ms, d, from) ==
    IF ms = <<>> THEN Slice(text, from, Len(text))
    ELSE LET m == Head(ms)
         IN Slice(text, from, m.start - 1)
            \o (IF FieldType(m.content) = <<"signature">> THEN m.placeholder
                ELSE ReplacementFor(m.content, d))
            \o SubstituteInPlace(text, Tail(ms), d, m.stop + 1)

\* no value that is substituted in the text holds a brace or markup
InertValues(text, d) ==
    \A k \in 1..Len(FindIter(text)) :
        LET c == FindIter(text)[k].content
        IN VarName(c) \in DOMAIN d =>
              ~HasBrace(PyStr(d[VarName(c)])) /\ ~HasMarkup(PyStr(d[VarName(c)]))

\* C6 as stated: generate() replaces every non-signature placeholder whose
\* name is not a key of the input data with the empty string and never raises,
\* for any template and any input data (compared on the paragraphs whose
\* substituted values hold neither brace nor markup).
C6_AsStated ==
    [][op' = "generate" =>
        /\ error' = "none"
        /\ \A i \in 1..Len(AllParas(document)) :
              LET before == ParaText(AllParas(document)[i])
              IN InertValues(before, data) =>
                    ParaText(AllParas(document')[i])
                        = SubstituteInPlace(before, FindIter(before), data, 1)
    ]_vars

RECURSIVE CountOcc(_, _)
CountOcc(text, pat) ==
    LET j == Find(text, pat, 1)
    IN IF j = 0 THEN 0
       ELSE 1 + CountOcc(Slice(text, j + Len(pat), Len(text)), pat)

HeldSignatures(paragraph) ==
    LET ms == FindIter(ParaText(paragraph))
    IN {ms[k].placeholder : k \in {j \in 1..Len(ms) :
            /\ FieldType(ms[j].content) = <<"signature">>
            /\ RunHolding(paragraph, ms[j].placeholder) # 0}}

PicturePaths(paragraph) ==
    LET IsPicture(run) == run.picture # None
        pics == SelectSeq(paragraph, IsPicture)
    IN [k \in 1..Len(pics) |-> pics[k].picture[1].path]

\* C8 as stated: apply_signatures(path) with an existing image completes
\* without error and, for every signature placeholder inside one run (body
\* and table cells), removes the placeholder text from the run and adds one
\* 2-inch-wide image run immediately after it.
C8_AsStated ==
    [][(op' = "apply_signatures" /\ PathExists(sig_path')) =>
        /\ error' = "none"
        /\ \A i \in 1..Len(AllParas(document)) :
              LET before == AllParas(document)[i]
                  after == AllParas(document')[i]
                  held == HeldSignatures(before)
              IN /\ \A ph \in held :
                       LET r == RunHolding(before, ph)
                       IN /\ ~Contains(after[r].text, ph)
                          /\ Cardinality(held) = 1 =>
                                /\ Len(after) > r
                                /\ after[r + 1].picture =
                                      Some([path |-> sig_path',
                                            width |-> SignatureWidthInches])
                 /\ Len(PicturePaths(after))
                       = Len(PicturePaths(before)) + Cardinality(held)
    ]_vars

\* the entries of signature_data that a placeholder name matches by prefix
\* or exactly
MatchingEntries(sd, var_name) ==
    {e \in 1..Len(sd) :
        IF SigPrefix(sd[e].k) # None
        THEN SigPrefix(var_name) = SigPrefix(sd[e].k)
        ELSE sd[e].k = var_name}

AllExist(paths) == \A k \in 1..Len(paths) : PathExists(paths[k])

\* the paragraphs the multi-signature claims speak of: one signature
\* placeholder, inside one run, matched by the one entry of signature_data
OneMatchedSignature(paragraph, sd) ==
    /\ Len(sd) = 1
    /\ Cardinality(HeldSignatures(paragraph)) = 1
    /\ \A ph \in HeldSignatures(paragraph) :
          MatchingEntries(sd, VarName(Slice(ph, 3, Len(ph) - 2))) = {1}

\* C9 as stated: with a key such as 'requester_1' mapped to an ordered list of
\* image paths, apply_multiple_signatures removes the text of a signature
\* placeholder of that prefix and appends one image run per path in list
\* order, the images separated by a double-space run.
C9_AsStated ==
    [][(op' = "apply_multiple_signatures") =>
        \A i \in 1..Len(AllParas(document)) :
           LET before == AllParas(document)[i]
               after == AllParas(document')[i]
           IN (/\ OneMatchedSignature(before, sig_data')
               /\ SigPrefix(sig_data'[1].k) # None
               /\ AllExist(sig_data'[1].v)) =>
                 /\ \A ph \in HeldSignatures(before) :
                       ~Contains(ParaText(after), ph)
                 /\ PicturePaths(after) = PicturePaths(before) \o sig_data'[1].v
                 /\ \A r \in (Len(before) + 1)..(Len(after) - 1) :
                       (after[r].picture # None /\ r + 2 <= Len(after)) =>
                           /\ after[r + 1].text = <<" ", " ">>
                           /\ after[r + 2].picture # None
    ]_vars

\* C10 as stated: apply_multiple_signatures never raises because an image
\* path does not exist; a non-existent path is skipped and the images of the
\* existing paths of the same list are still inserted.
C10_AsStated ==
    [][(op' = "apply_multiple_signatures"
          /\ \E e \in 1..Len(sig_data') : ~AllExist(sig_data'[e].v)) =>
        /\ error' = "none"
        /\ \A i \in 1..Len(AllParas(document)) :
              LET before == AllParas(document)[i]
                  after == AllParas(document')[i]
              IN (OneMatchedSignature(before, sig_data')
                     /\ ~AllExist(sig_data'[1].v)) =>
                    PicturePaths(after)
                        = PicturePaths(before) \o SelectSeq(sig_data'[1].v, PathExists)
    ]_vars

(***************************************************************************)
(* DocumentGenerator.export_docx / export_doc / export_pdf                 *)
(***************************************************************************)
MaxPdfCalls == 2

\* lines 316-323 (and 527-534): _replace_in_paragraph on every body
\* paragraph, then on every cell paragraph of doc
ReplaceAll(doc, d) ==
    LET ps == AllParas(doc)
    IN WithParas(doc, [i \in 1..Len(ps) |-> ReplaceInParagraph(ps[i], d)])

\* self.generate() called by an export: the document is substituted in
\* place and saved
GenerateCall ==
    /\ document' = ReplaceAll(document, data)
    /\ replacements' =
           [i \in 1..Len(AllParas(document)) |->
               Replacements(FindIter(ParaText(AllParas(document)[i])), data, <<>>)]
    /\ output' = Some(document')
    /\ error' = "none"

\* export_docx(): return self.generate()
ExportDocx ==
    /\ GenerateCall
    /\ op' = "export_docx"
    /\ exports' = [exports EXCEPT !.docx = @ \cup {document'}]
    /\ UNCHANGED <<template, data, sig_path, sig_data, parseVars,
                   parsers, htmlVars, preview, webVars>>

\* export_doc(): return self.generate()
ExportDoc ==
    /\ GenerateCall
    /\ op' = "export_doc"
    /\ exports' = [exports EXCEPT !.doc = @ \cup {document'}]
    /\ UNCHANGED <<template, data, sig_path, sig_data, parseVars,
                   parsers, htmlVars, preview, webVars>>

\* re.sub(r'\{\{[^}]+\}\}', '', text) from position i on: "{{", at least one
\* lexeme other than "}", then "}}"
RECURSIVE CleanFrom(_, _)
CleanFrom(text, i) ==
    IF i > Len(text) THEN <<>>
    ELSE LET closes == {j \in (i + 2)..Len(text) : text[j] = "}"}
             j == IF closes = {} THEN 0
                  ELSE CHOOSE c \in closes : \A q \in closes : c <= q
         IN IF /\ OccursAt(text, OPEN, i)
               /\ j >= i + 3
               /\ OccursAt(text, CLOSE, j)
            THEN CleanFrom(text, j + 2)
            ELSE <<text[i]>> \o CleanFrom(text, i + 1)
CleanPlaceholders(text) == CleanFrom(text, 1)

\* run_text.replace('&', '&amp;').replace('<', '&lt;').replace('>', '&gt;')
EscapeTok(t) ==
    IF t = "&" THEN <<"&amp;">>
    ELSE IF t \in EndTags THEN <<"&lt;", "/", TagName(t), "&gt;">>
    ELSE IF t \in StartTags
    THEN <<"&lt;", TagName(t)>>
         \o (IF TagStyle(t) = <<>> THEN <<>> ELSE <<" ", "style=">> \o TagStyle(t))
         \o <<"&gt;">>
    ELSE <<t>>
Escape(text) == Cat([i \in 1..Len(text) |-> EscapeTok(text[i])])

\* lines 631-643: one run of the paragraph as ReportLab markup
FormatRun(run) ==
    LET run_text == Escape(run.text)
    IN IF run.bold /\ run.italic
       THEN <<"<b>", "<i>">> \o run_text \o <<"</i>", "</b>">>
       ELSE IF run.bold THEN <<"<b>">> \o run_text \o <<"</b>">>
       ELSE IF run.italic THEN <<"<i>">> \o run_text \o <<"</i>">>
       ELSE run_text

\* _format_text_for_reportlab(text, paragraph)
FormatTextForReportlab(text, paragraph) ==
    LET HasText(run) == run.text # <<>>
        runs == SelectSeq(paragraph, HasText)
    IN IF runs # <<>>
       THEN Cat([i \in 1..Len(runs) |-> FormatRun(runs[i])])
       ELSE Escape(text)

Spacer(height) ==
    [kind |-> "Spacer", text |-> <<>>, style |-> height, rows |-> <<>>]
PdfParagraph(text, style) ==
    [kind |-> "Paragraph", text |-> text, style |-> style, rows |-> <<>>]
PdfTable(rows) ==
    [kind |-> "Table", text |-> <<>>, style |-> "grid", rows |-> rows]

\* lines 563-587: the flowables of one body paragraph (style Normal)
ParagraphElements(paragraph) ==
    LET text == Strip(ParaText(paragraph))
        is_heading == paragraph # <<>> /\ paragraph[1].bold
        cleaned == CleanPlaceholders(text)
    IN IF text = <<>> THEN <<Spacer("0.1in")>>
       ELSE IF cleaned = <<>> THEN <<>>
       ELSE <<PdfParagraph(FormatTextForReportlab(cleaned, paragraph),
                           IF is_heading THEN "CustomHeading" ELSE "CustomNormal"),
              Spacer("0.1in")>>

\* ' '.join([p.text for p in cell.paragraphs])
RECURSIVE JoinTexts(_)
JoinTexts(ps) ==
    IF ps = <<>> THEN <<>>
    ELSE IF Len(ps) = 1 THEN ParaText(ps[1])
    ELSE ParaText(ps[1]) \o <<" ">> \o JoinTexts(Tail(ps))

\* lines 595-598
CellText(cell) == CleanPlaceholders(Strip(JoinTexts(cell)))

\* lines 590-617: the cells of the document are one row of one table
TableElements(doc) ==
    IF doc.cells = <<>> THEN <<>>
    ELSE <<Spacer("0.2in"),
           PdfTable(<<[c \in 1..Len(doc.cells) |-> CellText(doc.cells[c])]>>),
           Spacer("0.2in")>>

\* lines 562-617
PdfElements(doc) ==
    Cat([i \in 1..Len(doc.paragraphs) |-> ParagraphElements(doc.paragraphs[i])])
    \o TableElements(doc)

\* a document that is a copy of self.document instead of the template file
LoadTemplate_InstanceDocument == document

\* line 524: doc = Document(self.template_path)
LoadTemplate == template

\* export_pdf() with reportlab installed
ExportPdf ==
    /\ Len(exports.pdf) < MaxPdfCalls
    /\ exports' = [exports EXCEPT
                      !.pdf = Append(@, PdfElements(ReplaceAll(LoadTemplate, data)))]
    /\ op' = "export_pdf"
    /\ error' = "none"
    /\ UNCHANGED <<template, data, document, output, sig_path, sig_data,
                   replacements, parseVars, parsers, htmlVars, preview, webVars>>

MaxExportPieces == 2

PhNamedCheckbox == Ph(<<"checkbox", "_", "1", "|", "text", "|", "T">>)
KeyCheckbox1 == <<"checkbox", "_", "1">>

ExportPieces == {
    Run(Ph(<<"a">>)),
    Run(PhSignature),
    Run(PhNamedCheckbox),
    Run(OPEN),
    BoldRun(<<"Hi", " ">>)
}

ExportData == {
    <<>>,
    (KeyA :> StrVal(PhCheckbox)) @@ (KeyC :> StrVal(<<"banana">>))
        @@ (KeyCheckbox1 :> StrVal(<<"hello">>)),
    (KeyA :> StrVal(Ph(<<"a">>))) @@ (KeyCheckbox1 :> StrVal(<<"on">>))
}

InitExport ==
    /\ \E runs \in SeqsUpTo(ExportPieces, MaxExportPieces), t \in BOOLEAN :
          template = RunLayout(runs, t)
    /\ \E d \in ExportData : NewGenerator(d)
    /\ ParseIdle
    /\ ExportIdle /\ ParsersIdle /\ HtmlIdle /\ PreviewIdle
    /\ WebIdle

NextExport ==
    \/ ExportDocx
    \/ ExportDoc
    \/ Generate

SpecExport == InitExport /\ [][NextExport]_vars

\* export_pdf() among the calls that change the instance's document
NextPdf ==
    \/ ExportPdf
    \/ Generate
    \/ ApplySignatures("/a.png")
    \/ ApplyMultipleSignatures(<<Entry(KeyR1, <<"/missing.png">>)>>)

SpecPdf == InitExport /\ [][NextPdf]_vars

(***************************************************************************)
(* Claims on the exports                                                   *)
(***************************************************************************)
\* C11 as stated: export_docx() and export_doc() return the same document
\* content for any template and input data, also when they are called one
\* after the other on the same generator instance.
C11_AsStated ==
    Cardinality(exports.docx \cup exports.doc) <= 1

\* C12: export_pdf() leaves the instance's document and input data (and the
\* template file) unchanged, and what it returns equals what every earlier
\* export_pdf() call on the instance has returned, whatever generate(),
\* apply_signatures() or apply_multiple_signatures() calls came before.
C12_ExportPdfRepeatable ==
    [][op' = "export_pdf" =>
        /\ document' = document
        /\ data' = data
        /\ template' = template
        /\ \A k \in 1..Len(exports.pdf) :
              exports.pdf[k] = exports'.pdf[Len(exports'.pdf)]
    ]_vars

\* export_pdf() has returned twice, the second time on an instance whose
\* document a generate() or a signature pass has changed
C12_Witness ==
    /\ op = "export_pdf"
    /\ Len(exports.pdf) = 2
    /\ document # template
    /\ exports.pdf[1] # <<>>

\* the texts of a PDF that the renderer is given
ElementTexts(elements) ==
    LET CellTexts(el) ==
            UNION {{el.rows[r][c] : c \in 1..Len(el.rows[r])} : r \in 1..Len(el.rows)}
    IN UNION {{elements[e].text} \cup CellTexts(elements[e]) : e \in 1..Len(elements)}

\* C13 as stated: no text that export_pdf() hands to the PDF renderer (body
\* paragraph or table cell) holds a {{...}} token; looked at for input values
\* without braces, where the tokens left by the substitution pass are the
\* signature placeholders.
C13_AsStated ==
    (\A key \in DOMAIN data : ~HasBrace(PyStr(data[key]))) =>
        \A k \in 1..Len(exports.pdf) :
            \A text \in ElementTexts(exports.pdf[k]) : ~HasPlaceholder(text)

(***************************************************************************)
(* views.py, TemplatePreviewAPIView.post: one preview request.  preview    *)
(* holds the position of the handler, the request's fields, the temporary  *)
(* file in the file system (<<>>: no such file), and the response.  Each   *)
(* statement that does I/O either completes or raises.                     *)
(***************************************************************************)
\* _convert_to_html(doc): a part for every paragraph with text (style
\* Normal), then the row of table cells
ConvertToHtml(doc) ==
    LET HasText(para) == Strip(ParaText(para)) # <<>>
        paras == SelectSeq(doc.paragraphs, HasText)
        TagOf(para) ==
            IF \E r \in 1..Len(para) : para[r].bold THEN "strong"
            ELSE IF \E r \in 1..Len(para) : para[r].italic THEN "em"
            ELSE "p"
    IN [i \in 1..Len(paras) |->
           [tag |-> TagOf(paras[i]), text |-> Escape(ParaText(paras[i]))]]
       \o [c \in 1..Len(doc.cells) |->
           [tag |-> "td",
            text |-> Escape(JoinTexts(SelectSeq(doc.cells[c], HasText)))]]

Response(status, html) == [status |-> status, html |-> html]

\* the handler is entered: lines 583-599
PreviewBegin(fields_data, has_file) ==
    /\ preview = None
    /\ preview' = Some([pc |-> IF has_file THEN "generate" ELSE "returned",
                        fields |-> fields_data,
                        tmp_file |-> None,
                        response |-> IF has_file THEN None
                                     ELSE Some(Response(404, <<>>))])
    /\ UNCHANGED <<template, genVars, parseVars, exports, parsers, htmlVars, webVars>>

\* an exception inside the outer try, outside the inner one
RaiseToExcept == preview' = Some([preview[1] EXCEPT !.pc = "except"])

\* lines 602-603: generator = DocumentGenerator(path, fields_data);
\* doc_bytes = generator.generate()
PreviewGenerate(fails) ==
    /\ preview # None /\ preview[1].pc = "generate"
    /\ IF fails
       THEN RaiseToExcept /\ UNCHANGED genVars
       ELSE /\ data' = preview[1].fields
            /\ document' = ReplaceAll(template, preview[1].fields)
            /\ output' = Some(document')
            /\ op' = "generate"
            /\ preview' = Some([preview[1] EXCEPT !.pc = "tmpfile"])
            /\ UNCHANGED <<error, sig_path, sig_data, replacements, webVars>>
    /\ UNCHANGED <<template, parseVars, exports, parsers, htmlVars, webVars>>

\* line 606: tempfile.NamedTemporaryFile(suffix='.docx', delete=False)
PreviewTempFile(fails) ==
    /\ preview # None /\ preview[1].pc = "tmpfile"
    /\ IF fails THEN RaiseToExcept
       ELSE preview' = Some([preview[1] EXCEPT !.pc = "write",
                                               !.tmp_file = Some(EmptyDoc)])
    /\ UNCHANGED <<template, genVars, parseVars, exports, parsers, htmlVars, webVars>>

\* lines 607-608 and the end of the with block: write, tmp_path, close.
\* A write or a close that raises leaves the with block through the file's
\* __exit__, which closes the file and, with delete=False, keeps it.
PreviewWrite(fails) ==
    /\ preview # None /\ preview[1].pc = "write"
    /\ IF fails THEN RaiseToExcept
       ELSE preview' = Some([preview[1] EXCEPT !.pc = "open",
                                               !.tmp_file = Some(output[1])])
    /\ UNCHANGED <<template, genVars, parseVars, exports, parsers, htmlVars, webVars>>

\* lines 610-622: doc = Document(tmp_path); html_content =
\* self._convert_to_html(doc); the response is built
PreviewConvert(fails) ==
    /\ preview # None /\ preview[1].pc = "open"
    /\ IF fails
       THEN preview' = Some([preview[1] EXCEPT !.pc = "finally"])
       ELSE preview' = Some([preview[1] EXCEPT
                !.pc = "finally",
                !.response = Some(Response(200, ConvertToHtml(preview[1].tmp_file[1])))])
    /\ UNCHANGED <<template, genVars, parseVars, exports, parsers, htmlVars, webVars>>

\* lines 623-626: the finally clause, then the return or the exception
PreviewFinally ==
    /\ preview # None /\ preview[1].pc = "finally"
    /\ preview' = Some([preview[1] EXCEPT
            !.tmp_file = None,
            !.pc = IF preview[1].response = None THEN "except" ELSE "returned"])
    /\ UNCHANGED <<template, genVars, parseVars, exports, parsers, htmlVars, webVars>>

\* lines 628-633: except Exception
PreviewExcept ==
    /\ preview # None /\ preview[1].pc = "except"
    /\ preview' = Some([preview[1] EXCEPT !.pc = "returned",
                                          !.response = Some(Response(500, <<>>))])
    /\ UNCHANGED <<template, genVars, parseVars, exports, parsers, htmlVars, webVars>>

InitPreview ==
    /\ \E runs \in SeqsUpTo(ExportPieces, MaxExportPieces), t \in BOOLEAN :
          template = RunLayout(runs, t)
    /\ GenIdle
    /\ ParseIdle
    /\ ExportIdle /\ ParsersIdle /\ HtmlIdle /\ PreviewIdle
    /\ WebIdle

NextPreview ==
    \/ \E d \in ExportData, has_file \in BOOLEAN : PreviewBegin(d, has_file)
    \/ \E fails \in BOOLEAN : PreviewGenerate(fails)
    \/ \E fails \in BOOLEAN : PreviewTempFile(fails)
    \/ \E fails \in BOOLEAN : PreviewWrite(fails)
    \/ \E fails \in BOOLEAN : PreviewConvert(fails)
    \/ PreviewFinally
    \/ PreviewExcept

SpecPreview == InitPreview /\ [][NextPreview]_vars

\* C14 as stated: when the preview request returns, no temporary file is
\* left, whichever of writing the bytes, re-opening the file and the HTML
\* conversion has succeeded or raised.
C14_AsStated ==
    (preview # None /\ preview[1].pc = "returned") => preview[1].tmp_file = None

(***************************************************************************)
(* Further claims on TemplateParser.parse                                  *)
(***************************************************************************)
\* the first of the placeholder contents `occ`, of names `names`, with the
\* given name
FirstOf(occ, names, name) ==
    occ[CHOOSE i \in 1..Len(occ) :
           names[i] = name /\ \A j \in 1..(i - 1) : names[j] # name]

\* the content of the first placeholder of the template with the given name
FirstContent(name) ==
    LET occ == AllMatches(template)
    IN FirstOf(occ, [i \in 1..Len(occ) |-> NameOf(occ[i])], name)

Pipes(content) == Cardinality({i \in 1..Len(content) : content[i] = "|"})

\* the lexemes of a validation string after its first `key`, up to the comma
BoundText(validation, key) ==
    LET j == Find(validation, <<key>>, 1)
        rest == Slice(validation, j + 1, Len(validation))
        c == Find(rest, <<",">>, 1)
    IN Strip(IF c = 0 THEN rest ELSE Slice(rest, 1, c - 1))

IsNumber(text) == text # <<>> /\ \A i \in 1..Len(text) : text[i] \in Digits

\* C15: parse() returns for every template; a placeholder without type,
\* label or validation part gets 'text', the title-cased name and the empty
\* string, an empty placeholder gives a field with the empty name, and a
\* min: / max: of a number field that is not a number leaves the bound None
\* (a number is taken over).
C15_ParseNeverRaises ==
    pc = "done" =>
        LET occ == AllMatches(template)
            names == [i \in 1..Len(occ) |-> NameOf(occ[i])]
        IN
        /\ result # None
        /\ Len(result[1].fields) >= Cardinality({names[i] : i \in 1..Len(occ)})
        /\ \A i \in 1..Len(result[1].fields) :
              LET f == result[1].fields[i]
                  content == FirstOf(occ, names, f.name)
              IN /\ Pipes(content) = 0 => f.type = <<"text">>
                 /\ Pipes(content) <= 1 =>
                       f.label = [k \in 1..Len(f.name) |->
                                    IF f.name[k] = "_" THEN " "
                                    ELSE IF f.name[k] \in Words
                                              /\ (k = 1 \/ f.name[k - 1] \notin Words)
                                         THEN TitleTok(f.name[k])
                                         ELSE f.name[k]]
                 /\ Pipes(content) <= 2 =>
                       f.validation = <<>> /\ f.options = <<>>
                 /\ \A b \in {"min:", "max:"} :
                       LET value == IF b = "min:" THEN f.min_value ELSE f.max_value
                       IN IF f.type = <<"number">> /\ HasTok(f.validation, b)
                             /\ IsNumber(BoundText(f.validation, b))
                          THEN value # None
                          ELSE value = None

\* an empty placeholder, a placeholder of a name alone, and a number field
\* with min:1 and max:x have been parsed
C15_Witness ==
    /\ pc = "done"
    /\ \E i, j, k \in 1..Len(result[1].fields) :
          /\ result[1].fields[i].name = <<>>
          /\ result[1].fields[i].type = <<"text">>
          /\ Pipes(FirstContent(result[1].fields[j].name)) = 1
          /\ result[1].fields[j].label # <<>>
          /\ result[1].fields[k].min_value = Some(1)
          /\ HasTok(result[1].fields[k].validation, "max:")
          /\ result[1].fields[k].max_value = None

(***************************************************************************)
(* Several TemplateParser instances whose parse() calls interleave match   *)
(* by match.  parsers[p] holds the instance's document, the position of    *)
(* its running call with the call's locals, and the results returned.      *)
(***************************************************************************)
MaxParserPieces == 2
MaxParseCalls == 2

\* the locals of a call that shares its seen-name set with every other call
FreshLocals_SharedSeen(p) ==
    [fields |-> <<>>,
     seen_vars |-> UNION {parsers[q].locals.seen_vars : q \in 1..Len(parsers)},
     signature_groups |-> <<>>]

\* lines 18-20: fields, seen_vars and signature_groups of a call of parser p
FreshLocals(p) ==
    [fields |-> <<>>, seen_vars |-> {}, signature_groups |-> <<>>]

\* TemplateParser(file_path)
NewTemplateParser(doc) ==
    [document |-> doc, pc |-> "idle", queue |-> <<>>,
     locals |-> [fields |-> <<>>, seen_vars |-> {}, signature_groups |-> <<>>],
     results |-> <<>>]

\* parse() is called on parser p
CallParse(p) ==
    /\ parsers[p].pc = "idle"
    /\ Len(parsers[p].results) < MaxParseCalls
    /\ parsers' = [parsers EXCEPT ![p].pc = "scan",
                                  ![p].queue = AllMatches(parsers[p].document),
                                  ![p].locals = FreshLocals(p)]
    /\ UNCHANGED <<template, genVars, parseVars, exports, htmlVars, preview, webVars>>

\* the call of parser p visits its next match
StepParse(p) ==
    /\ parsers[p].pc = "scan"
    /\ parsers[p].queue # <<>>
    /\ parsers' = [parsers EXCEPT
            ![p].locals = ExtractMatch(parsers[p].locals, Head(parsers[p].queue)),
            ![p].queue = Tail(@)]
    /\ UNCHANGED <<template, genVars, parseVars, exports, htmlVars, preview, webVars>>

\* lines 106-111: the call of parser p returns
ReturnParse(p) ==
    /\ parsers[p].pc = "scan"
    /\ parsers[p].queue = <<>>
    /\ parsers' = [parsers EXCEPT
            ![p].pc = "idle",
            ![p].results = Append(@, [fields |-> parsers[p].locals.fields,
                                      signature_groups |->
                                          parsers[p].locals.signature_groups])]
    /\ UNCHANGED <<template, genVars, parseVars, exports, htmlVars, preview, webVars>>

ParserPieces == {
    Ph(<<"r", "_", "1", "|", "signature", "|", "Req">>),
    Ph(<<"r", "_", "1", "_", "name", "|", "text", "|", "|", "autofilled">>)
}

InitParsers ==
    /\ \E ps, qs \in SeqsUpTo(ParserPieces, MaxParserPieces) :
          parsers = <<NewTemplateParser(Layout(ps, Len(ps), FALSE)),
                      NewTemplateParser(Layout(qs, Len(qs), FALSE))>>
    /\ template = EmptyDoc
    /\ GenIdle
    /\ ParseIdle
    /\ ExportIdle /\ HtmlIdle /\ PreviewIdle
    /\ WebIdle

NextParsers ==
    \E p \in 1..Len(parsers) : CallParse(p) \/ StepParse(p) \/ ReturnParse(p)

SpecParsers == InitParsers /\ [][NextParsers]_vars

\* what parse() returns for a document when nothing else runs
RECURSIVE ScanAlone(_, _)
ScanAlone(st, matches) ==
    IF matches = <<>> THEN st
    ELSE ScanAlone(ExtractMatch(st, Head(matches)), Tail(matches))
ParseAlone(doc) ==
    LET st == ScanAlone([fields |-> <<>>, seen_vars |-> {},
                         signature_groups |-> <<>>], AllMatches(doc))
    IN [fields |-> st.fields, signature_groups |-> st.signature_groups]

\* C16: every result a parser has returned, on its first call or a later
\* one and however the calls of the parsers interleave, is the result of
\* parsing its document alone; the names seen by a running call are those of
\* its own document.
C16_NoStateAcrossCalls ==
    \A p \in 1..Len(parsers) :
        LET occ == AllMatches(parsers[p].document)
            alone == IF parsers[p].results = <<>> THEN <<>>
                     ELSE ParseAlone(parsers[p].document)
        IN /\ \A k \in 1..Len(parsers[p].results) : parsers[p].results[k] = alone
           /\ parsers[p].locals.seen_vars \subseteq
                 {NameOf(occ[i]) : i \in 1..Len(occ)}

\* one parser has returned twice while the other, whose document shares a
\* name with it, is in the middle of a call
C16_Witness ==
    /\ Len(parsers) = 2
    /\ \E p, q \in 1..2 :
          /\ p # q
          /\ Len(parsers[p].results) = 2
          /\ parsers[p].results[1].fields # <<>>
          /\ parsers[q].pc = "scan"
          /\ parsers[q].locals.seen_vars \cap parsers[p].locals.seen_vars # {}
          /\ Len(parsers[q].results) = 1

\* the validation string holds 'required' in some letter case
MentionsRequired(validation) ==
    \E i \in 1..Len(validation) : LowerTok(validation[i]) = "required"

\* C17: after every step of a parse, a group's is_required is true exactly
\* when one of the members added so far mentions 'required' (in any letter
\* case), and a step never turns it from true to false.
C17_RequiredIsSticky ==
    [][\A g \in 1..Len(signature_groups') :
          LET group == signature_groups'[g]
          IN /\ group.is_required =
                   (\E m \in 1..Len(group.signature_fields) :
                       MentionsRequired(group.signature_fields[m].validation))
             /\ (/\ g <= Len(signature_groups)
                 /\ signature_groups[g].prefix = group.prefix
                 /\ signature_groups[g].is_required) => group.is_required
    ]_vars

\* a group whose first member is required and whose second member is not
C17_Witness ==
    /\ pc = "done"
    /\ \E g \in 1..Len(signature_groups) :
          /\ Len(signature_groups[g].signature_fields) = 2
          /\ MentionsRequired(signature_groups[g].signature_fields[1].validation)
          /\ ~MentionsRequired(signature_groups[g].signature_fields[2].validation)
          /\ signature_groups[g].is_required
          /\ result[1].signature_groups[g].is_required

(***************************************************************************)
(* Further claims on DocumentGenerator.generate                            *)
(***************************************************************************)
\* C18: generate() leaves the runs of a paragraph as they are, texts and
\* formatting, when the paragraph holds no complete placeholder (an
\* unmatched {{ included), when all its placeholders are signature
\* placeholders, and whenever its text after generate() is its text before.
C18_UntouchedParagraphs ==
    [][op' = "generate" =>
        \A i \in 1..Len(AllParas(document)) :
           LET before == AllParas(document)[i]
               after == AllParas(document')[i]
               ms == FindIter(ParaText(before))
           IN (\/ ms = <<>>
               \/ \A k \in 1..Len(ms) : FieldType(ms[k].content) = <<"signature">>
               \/ ParaText(after) = ParaText(before))
              => after = before
    ]_vars

\* a generated paragraph of a bold run and a placeholder whose value is the
\* placeholder's own text, with both runs as before
C18_Witness ==
    /\ op = "generate"
    /\ KeyA \in DOMAIN data /\ PyStr(data[KeyA]) = Ph(<<"a">>)
    /\ \E i \in 1..Len(AllParas(template)) :
          /\ Len(AllParas(template)[i]) = 2
          /\ AllParas(template)[i][1].bold
          /\ AllParas(template)[i][2].text = Ph(<<"a">>)
          /\ AllParas(document)[i] = AllParas(template)[i]

\* no 'checkbox' in the type, the label or the validation of a placeholder
NoCheckboxInMetadata(content) ==
    LET parts == Split(content, "|")
    IN \A j \in 2..Len(parts) : ~HasTok(Lower(parts[j]), "checkbox")

\* C19 as stated: generate() replaces a placeholder whose type, label and
\* validation do not contain 'checkbox', and whose name is a key of the input
\* data, by the stringified input value unchanged.
C19_AsStated ==
    [][op' = "generate" =>
        \A i \in 1..Len(AllParas(document)) :
           LET before == ParaText(AllParas(document)[i])
               after == ParaText(AllParas(document')[i])
               ms == FindIter(before)
           IN \A k \in 1..Len(ms) :
                 (/\ NoCheckboxInMetadata(ms[k].content)
                  /\ FieldType(ms[k].content) # <<"signature">>
                  /\ VarName(ms[k].content) \in DOMAIN data)
                 => /\ DictHas(replacements'[i], ms[k].placeholder)
                    /\ DictGet(replacements'[i], ms[k].placeholder)
                         = PyStr(data[VarName(ms[k].content)])
                    /\ (Len(ms) = 1 /\ ~HasBrace(PyStr(data[VarName(ms[k].content)])))
                         => after = Slice(before, 1, ms[k].start - 1)
                                    \o PyStr(data[VarName(ms[k].content)])
                                    \o Slice(before, ms[k].stop + 1, Len(before))
    ]_vars

(***************************************************************************)
(* HTMLFormattingParser fed one fragment, handler by handler               *)
(***************************************************************************)
MaxHtmlLen == 5

\* the lexemes of the fragments: tags of two kinds of format, one of them
\* under both of its names, and a text
HtmlTokens == {"<b>", "</b>", "<strong>", "</strong>", "<i>", "</i>", "x"}

\* the text node that starts at lexeme i ends before the next tag
NodeEnd(html, i) ==
    LET tags == {j \in i..Len(html) : html[j] \in Tags}
    IN IF tags = {} THEN Len(html)
       ELSE (CHOOSE j \in tags : \A k \in tags : j <= k) - 1

HtmlStartTag ==
    /\ html_parser # None /\ ~html_parser[1].raised
    /\ html_pos < Len(html_input)
    /\ html_input[html_pos + 1] \in StartTags
    /\ html_parser' = Some(HandleStartTag(html_parser[1], html_input[html_pos + 1]))
    /\ html_pos' = html_pos + 1
    /\ UNCHANGED <<html_input, template, parseVars, genVars,
                   exports, parsers, preview, webVars>>

HtmlEndTag ==
    /\ html_parser # None /\ ~html_parser[1].raised
    /\ html_pos < Len(html_input)
    /\ html_input[html_pos + 1] \in EndTags
    /\ html_parser' = Some(HandleEndTag(html_parser[1], html_input[html_pos + 1]))
    /\ html_pos' = html_pos + 1
    /\ UNCHANGED <<html_input, template, parseVars, genVars,
                   exports, parsers, preview, webVars>>

HtmlData ==
    /\ html_parser # None /\ ~html_parser[1].raised
    /\ html_pos < Len(html_input)
    /\ html_input[html_pos + 1] \notin Tags
    /\ LET stop == NodeEnd(html_input, html_pos + 1)
       IN /\ html_parser' = Some(HandleData(html_parser[1],
                                            Slice(html_input, html_pos + 1, stop)))
          /\ html_pos' = stop
    /\ UNCHANGED <<html_input, template, parseVars, genVars,
                   exports, parsers, preview, webVars>>

InitHtml ==
    /\ html_input \in SeqsUpTo(HtmlTokens, MaxHtmlLen)
    /\ html_pos = 0
    /\ html_parser = Some(NewParser(<<>>))
    /\ template = EmptyDoc
    /\ GenIdle
    /\ ParseIdle
    /\ ExportIdle /\ ParsersIdle /\ PreviewIdle
    /\ WebIdle

NextHtml == HtmlStartTag \/ HtmlEndTag \/ HtmlData

SpecHtml == InitHtml /\ [][NextHtml]_vars

(***************************************************************************)
(* Claims on the Rich-Text Formatter                                       *)
(***************************************************************************)
\* every closing tag closes the element opened last, and none stays open
RECURSIVE WellNestedFrom(_, _)
WellNestedFrom(html, open) ==
    IF html = <<>> THEN open = <<>>
    ELSE IF Head(html) \in StartTags
         THEN WellNestedFrom(Tail(html), Append(open, TagName(Head(html))))
    ELSE IF Head(html) \in EndTags
         THEN /\ open # <<>>
              /\ open[Len(open)] = TagName(Head(html))
              /\ WellNestedFrom(Tail(html), Slice(open, 1, Len(open) - 1))
    ELSE WellNestedFrom(Tail(html), open)
WellNested(html) == WellNestedFrom(html, <<>>)

\* the elements of the given names that are open after the first n lexemes
\* of a well-nested fragment
StillOpen(html, n, names) ==
    Cardinality({j \in 1..n : html[j] \in StartTags /\ TagName(html[j]) \in names})
    - Cardinality({j \in 1..n : html[j] \in EndTags /\ TagName(html[j]) \in names})

\* a text node has just been handled
AfterTextNode ==
    /\ html_parser # None
    /\ html_pos > 0
    /\ html_input[html_pos] \notin Tags

\* where the text node that has just been handled starts
NodeStart ==
    LET tags == {j \in 1..html_pos : html_input[j] \in Tags}
    IN IF tags = {} THEN 1
       ELSE (CHOOSE j \in tags : \A k \in tags : j >= k) + 1

\* C20 as stated: for a well-nested fragment the run created for a text node
\* is bold exactly when the node lies inside at least one still-open strong/b
\* element, and italic exactly when inside a still-open em/i element, also
\* when elements of the same kind are nested inside each other.
C20_AsStated ==
    (AfterTextNode /\ WellNested(html_input)) =>
        LET paragraph == html_parser[1].paragraph
            run == paragraph[Len(paragraph)]
        IN /\ paragraph # <<>>
           /\ run.bold <=> StillOpen(html_input, NodeStart - 1, {"strong", "b"}) > 0
           /\ run.italic <=> StillOpen(html_input, NodeStart - 1, {"em", "i"}) > 0

(***************************************************************************)
(* The formatter fed fragments of span elements                            *)
(***************************************************************************)
\* spans with a colour, with a colour and a background colour, without a
\* style, and a text
SpanTokens == {"<span red>", "<span blue>", "<span red on yellow>", "<span>",
               "</span>", "x"}

InitSpans ==
    /\ html_input \in SeqsUpTo(SpanTokens, MaxHtmlLen)
    /\ html_pos = 0
    /\ html_parser = Some(NewParser(<<>>))
    /\ template = EmptyDoc
    /\ GenIdle
    /\ ParseIdle
    /\ ExportIdle /\ ParsersIdle /\ PreviewIdle
    /\ WebIdle

SpecSpans == InitSpans /\ [][NextHtml]_vars

\* the colour a span's style declares, None for a span without one
DeclaredColor(t) ==
    CASE t \in {"<span red>", "<span red on yellow>"} -> Some(<<"red">>)
      [] t = "<span blue>" -> Some(<<"blue">>)
      [] OTHER -> None

\* the declared colours (None where there is none) of the elements open
\* after the lexemes of html, innermost last
RECURSIVE OpenColors(_, _)
OpenColors(html, open) ==
    IF html = <<>> THEN open
    ELSE IF Head(html) \in StartTags
         THEN OpenColors(Tail(html), Append(open, DeclaredColor(Head(html))))
    ELSE IF Head(html) \in EndTags /\ open # <<>>
         THEN OpenColors(Tail(html), Slice(open, 1, Len(open) - 1))
    ELSE OpenColors(Tail(html), open)

\* the colour of the innermost open element that declares one
InnermostColor(open) ==
    LET declaring == {j \in 1..Len(open) : open[j] # None}
    IN IF declaring = {} THEN None
       ELSE open[CHOOSE j \in declaring : \A k \in declaring : j >= k]

\* C21 as stated: the font colour of a text node's run is the colour of the
\* innermost still-open span that declares a colour, and no colour once
\* every such span is closed, also for a span that declares a background
\* colour as well or that has no style.
C21_AsStated ==
    (AfterTextNode /\ WellNested(html_input)) =>
        LET paragraph == html_parser[1].paragraph
            run == paragraph[Len(paragraph)]
        IN /\ paragraph # <<>>
           /\ run.color =
                InnermostColor(OpenColors(Slice(html_input, 1, NodeStart - 1), <<>>))

(***************************************************************************)
(* HTMLToDocxConverter.parse_html on fragments with white space            *)
(***************************************************************************)
ConvertTokens == {"<b>", "</b>", " ", "x"}

\* parse_html up to the parser's creation: nothing for an empty or blank
\* input, one run for an input without "<", else the parser is fed
ConvertHtml ==
    /\ html_parser = None
    /\ IF html_input = <<>> \/ Strip(html_input) = <<>>
       THEN /\ html_parser' = Some(NewParser(<<>>))
            /\ html_pos' = Len(html_input)
       ELSE IF ~HasMarkup(html_input)
       THEN /\ html_parser' = Some(NewParser(<<Run(html_input)>>))
            /\ html_pos' = Len(html_input)
       ELSE /\ html_parser' = Some(NewParser(<<>>))
            /\ html_pos' = 0
    /\ UNCHANGED <<html_input, template, parseVars, genVars,
                   exports, parsers, preview, webVars>>

InitConvert ==
    /\ html_input \in SeqsUpTo(ConvertTokens, MaxHtmlLen)
    /\ html_pos = 0
    /\ html_parser = None
    /\ template = EmptyDoc
    /\ GenIdle
    /\ ParseIdle
    /\ ExportIdle /\ ParsersIdle /\ PreviewIdle
    /\ WebIdle

NextConvert == ConvertHtml \/ HtmlStartTag \/ HtmlEndTag \/ HtmlData

SpecConvert == InitConvert /\ [][NextConvert]_vars

\* the lexemes of a fragment outside its tags
TextOf(html) == SelectSeq(html, LAMBDA t : t \notin Tags)

\* the text nodes of a fragment: the maximal stretches without a tag
TextNodes(html) ==
    Cardinality({i \in 1..Len(html) :
                    html[i] \notin Tags /\ (i = 1 \/ html[i - 1] \in Tags)})

\* parse_html has returned
Converted ==
    /\ html_parser # None
    /\ html_pos = Len(html_input)

\* C22 as stated: for a fragment that holds a text other than white space,
\* the texts of the runs appended give, one after the other, the fragment's
\* text nodes in order, one run a text node, and an input without '<' gives
\* exactly one run holding the input verbatim.
C22_AsStated ==
    (Converted /\ Strip(TextOf(html_input)) # <<>>) =>
        LET paragraph == html_parser[1].paragraph
        IN /\ ParaText(paragraph) = TextOf(html_input)
           /\ Len(paragraph) = TextNodes(html_input)
           /\ ~HasMarkup(html_input) => paragraph = <<Run(html_input)>>

(***************************************************************************)
(* The formatter fed tags that are unclosed, unopened or mismatched        *)
(***************************************************************************)
TagTokens == {"<b>", "</b>", "</i>", "<span style>", "<span #ggg>", "</span>",
              "x"}

InitTags ==
    /\ html_input \in SeqsUpTo(TagTokens, MaxHtmlLen)
    /\ html_pos = 0
    /\ html_parser = Some(NewParser(<<>>))
    /\ template = EmptyDoc
    /\ GenIdle
    /\ ParseIdle
    /\ ExportIdle /\ ParsersIdle /\ PreviewIdle
    /\ WebIdle

SpecTags == InitTags /\ [][NextHtml]_vars

\* a closing tag matches a stack entry of its own kind of format
MatchesTop(t, entry) ==
    CASE TagName(t) \in {"strong", "b"} -> entry.type = "bold"
      [] TagName(t) \in {"em", "i"} -> entry.type = "italic"
      [] TagName(t) = "u" -> entry.type = "underline"
      [] TagName(t) \in {"strike", "s", "del"} -> entry.type = "strikethrough"
      [] TagName(t) = "span" -> entry.type \in {"color", "bg_color"}
      [] OTHER -> FALSE

\* C23 as stated: for any sequence of opening and closing tags, unclosed,
\* unopened and mismatched ones included, no handler raises; a closing tag
\* that does not match the entry on top of the format stack, or that meets
\* an empty stack, leaves the stack as it is.
C23_AsStated ==
    [][/\ ~html_parser'[1].raised
       /\ html_input[html_pos + 1] \in EndTags =>
             LET stack == html_parser[1].format_stack
             IN (stack = <<>> \/ ~MatchesTop(html_input[html_pos + 1], stack[Len(stack)]))
                => html_parser'[1].format_stack = stack
    ]_vars

\* the stack part of C23 alone
StackLeftAlone ==
    [][html_input[html_pos + 1] \in EndTags =>
             LET stack == html_parser[1].format_stack
             IN (stack = <<>> \/ ~MatchesTop(html_input[html_pos + 1], stack[Len(stack)]))
                => html_parser'[1].format_stack = stack
    ]_vars

(***************************************************************************)
(* common/rate_limiters.py, api_rate_limit: the requests of one client     *)
(* (one IP, one email) to one endpoint, handled by concurrent workers      *)
(* against the shared cache.  Every cache.get and cache.set is one step.   *)
(***************************************************************************)
RateRequests == 2      \* requests=R of the decorator
RateWindow == 2        \* window=W of the decorator, in seconds
MaxRateTime == 3       \* the clock stops here
MaxRateCalls == 3      \* requests the client sends in all
RateWorkers == {1, 2}

coreVars == <<template, genVars, parseVars, exports, parsers, htmlVars, preview>>

RateState == rate[1]

IdleWorker == [pc |-> "idle", current_time |-> 0, email |-> FALSE,
               timestamps |-> <<>>]

\* cache.get(key, []): the list stored, [] once the entry has expired
CacheGet(key) ==
    IF RateState.cache[key].expires > RateState.now
    THEN RateState.cache[key].value ELSE <<>>

\* [ts for ts in timestamps if current_time - ts <= window]
Recent(timestamps, current_time) ==
    SelectSeq(timestamps, LAMBDA ts : current_time - ts <= RateWindow)

\* cache.set(key, value, window + 10)
CacheSet(key, value) ==
    [RateState.cache EXCEPT ![key] = [value |-> value,
                                      expires |-> RateState.now + RateWindow + 10]]

RateStep(w, worker, cache, log) ==
    /\ rate' = Some([RateState EXCEPT !.workers[w] = worker, !.cache = cache,
                                      !.log = log])
    /\ UNCHANGED <<coreVars, approval, login>>

\* line 75 and 78-85: the request arrives, current_time is read
RateBegin(w, has_email) ==
    /\ rate # None
    /\ RateState.workers[w].pc = "idle"
    /\ RateState.sent < MaxRateCalls
    /\ rate' = Some([RateState EXCEPT
                       !.workers[w] = [pc |-> IF has_email THEN "email_get" ELSE "ip_get",
                                       current_time |-> RateState.now,
                                       email |-> has_email,
                                       timestamps |-> <<>>],
                       !.sent = @ + 1])
    /\ UNCHANGED <<coreVars, approval, login>>

\* lines 87-103: the email list is read and cut to the window; 429 when full
RateEmailGet(w) ==
    /\ rate # None
    /\ RateState.workers[w].pc = "email_get"
    /\ LET me == RateState.workers[w]
           email_timestamps == Recent(CacheGet("email"), me.current_time)
       IN IF Len(email_timestamps) >= RateRequests
          THEN RateStep(w, IdleWorker, RateState.cache,
                        Append(RateState.log, [t |-> me.current_time,
                                               email |-> me.email, status |-> 429]))
          ELSE RateStep(w, [me EXCEPT !.pc = "email_set",
                                      !.timestamps = email_timestamps],
                        RateState.cache, RateState.log)

\* lines 105-106
RateEmailSet(w) ==
    /\ rate # None
    /\ RateState.workers[w].pc = "email_set"
    /\ LET me == RateState.workers[w]
       IN RateStep(w, [me EXCEPT !.pc = "ip_get", !.timestamps = <<>>],
                   CacheSet("email", Append(me.timestamps, me.current_time)),
                   RateState.log)

\* lines 111-127
RateIpGet(w) ==
    /\ rate # None
    /\ RateState.workers[w].pc = "ip_get"
    /\ LET me == RateState.workers[w]
           ip_timestamps == Recent(CacheGet("ip"), me.current_time)
       IN IF Len(ip_timestamps) >= RateRequests
          THEN RateStep(w, IdleWorker, RateState.cache,
                        Append(RateState.log, [t |-> me.current_time,
                                               email |-> me.email, status |-> 429]))
          ELSE RateStep(w, [me EXCEPT !.pc = "ip_set",
                                      !.timestamps = ip_timestamps],
                        RateState.cache, RateState.log)

\* lines 129-130
RateIpSet(w) ==
    /\ rate # None
    /\ RateState.workers[w].pc = "ip_set"
    /\ LET me == RateState.workers[w]
       IN RateStep(w, [me EXCEPT !.pc = "view", !.timestamps = <<>>],
                   CacheSet("ip", Append(me.timestamps, me.current_time)),
                   RateState.log)

\* line 137: the wrapped view runs
RateView(w) ==
    /\ rate # None
    /\ RateState.workers[w].pc = "view"
    /\ LET me == RateState.workers[w]
       IN RateStep(w, IdleWorker, RateState.cache,
                   Append(RateState.log, [t |-> me.current_time,
                                          email |-> me.email, status |-> 200]))

\* a second passes
RateTick ==
    /\ rate # None
    /\ RateState.now < MaxRateTime
    /\ rate' = Some([RateState EXCEPT !.now = @ + 1])
    /\ UNCHANGED <<coreVars, approval, login>>

InitRate ==
    /\ rate = Some([cache |-> [k \in {"ip", "email"} |->
                                  [value |-> <<>>, expires |-> 0]],
                    now |-> 0,
                    sent |-> 0,
                    workers |-> [w \in RateWorkers |-> IdleWorker],
                    log |-> <<>>])
    /\ approval = None /\ login = None
    /\ template = EmptyDoc
    /\ GenIdle
    /\ ParseIdle
    /\ ExportIdle /\ ParsersIdle /\ HtmlIdle /\ PreviewIdle

NextRate ==
    \/ \E w \in RateWorkers, has_email \in BOOLEAN : RateBegin(w, has_email)
    \/ \E w \in RateWorkers : RateEmailGet(w)
    \/ \E w \in RateWorkers : RateEmailSet(w)
    \/ \E w \in RateWorkers : RateIpGet(w)
    \/ \E w \in RateWorkers : RateIpSet(w)
    \/ \E w \in RateWorkers : RateView(w)
    \/ RateTick

SpecRate == InitRate /\ [][NextRate]_vars

\* the calls of the view among the first n entries of the log whose request
\* time lies in the W seconds that end at t
Admitted(t, with_email) ==
    {i \in 1..Len(RateState.log) :
        /\ RateState.log[i].status = 200
        /\ RateState.log[i].t \in (t - RateWindow)..t
        /\ with_email => RateState.log[i].email}

\* C24 as stated: at most R calls of the wrapped view per client IP, and per
\* email, within any window of W seconds, also when requests of the client
\* are handled concurrently.
C24_AsStated ==
    rate # None =>
        \A t \in 0..MaxRateTime :
           /\ Cardinality(Admitted(t, FALSE)) <= RateRequests
           /\ Cardinality(Admitted(t, TRUE)) <= RateRequests

(***************************************************************************)
(* Further claims on generate() and the signature passes                   *)
(***************************************************************************)
\* the placeholders of a text stand apart: none holds a brace inside, and no
\* value that is substituted holds markup
StandApart(text, d) ==
    \A k \in 1..Len(FindIter(text)) :
        LET c == FindIter(text)[k].content
        IN /\ ~HasBrace(c)
           /\ VarName(c) \in DOMAIN d => ~HasMarkup(PyStr(d[VarName(c)]))

\* C25 as stated: substitution in generate() is simultaneous: the resulting
\* paragraph text is the original text with each placeholder occurrence
\* replaced by its own value, whatever the values contain, a value of the
\* form {{other}} with 'other' another placeholder of the paragraph included.
C25_AsStated ==
    [][op' = "generate" =>
        \A i \in 1..Len(AllParas(document)) :
           LET before == ParaText(AllParas(document)[i])
           IN StandApart(before, data) =>
                 ParaText(AllParas(document')[i])
                     = SubstituteInPlace(before, FindIter(before), data, 1)
    ]_vars

\* the entries of signature_data whose key is the given field name
EntriesNamed(sd, var_name) == {e \in 1..Len(sd) : sd[e].k = var_name}

\* signature_data holds several keys, all of one prefix
SeveralKeysOfOnePrefix(sd) ==
    /\ Len(sd) >= 2
    /\ \A e \in 1..Len(sd) :
          SigPrefix(sd[e].k) # None /\ SigPrefix(sd[e].k) = SigPrefix(sd[1].k)

\* C27 as stated: when signature_data holds several keys of the same prefix,
\* apply_multiple_signatures inserts at each signature placeholder the
\* existing images listed under the key equal to the placeholder's field
\* name, each once (compared on paragraphs of one signature placeholder).
C27_AsStated ==
    [][(op' = "apply_multiple_signatures" /\ SeveralKeysOfOnePrefix(sig_data')) =>
        \A i \in 1..Len(AllParas(document)) :
           LET before == AllParas(document)[i]
               after == AllParas(document')[i]
           IN \A ph \in HeldSignatures(before) :
                 \A e \in EntriesNamed(sig_data', VarName(Slice(ph, 3, Len(ph) - 2))) :
                    Cardinality(HeldSignatures(before)) = 1 =>
                       PicturePaths(after)
                           = PicturePaths(before) \o SelectSeq(sig_data'[e].v, PathExists)
    ]_vars

\* generate() and export_docx() among signature passes with an image that
\* exists
NextSigned ==
    \/ Generate
    \/ ExportDocx
    \/ ApplySignatures("/a.png")
    \/ ApplyMultipleSignatures(<<Entry(KeyR1, <<"/a.png">>)>>)

SpecSigned == InitExport /\ [][NextSigned]_vars

\* a signature pass has taken the signature placeholder of the template's
\* paragraph i out of its run
SignaturePassed(i) ==
    /\ HeldSignatures(AllParas(template)[i]) # {}
    /\ \A ph \in HeldSignatures(AllParas(template)[i]) :
          ~Contains(ParaText(AllParas(document)[i]), ph)

\* C26 as stated: for any order of generate(), apply_signatures() and
\* apply_multiple_signatures() calls, the image run that a signature pass
\* has put in a paragraph is in the document after every later generate()
\* or export_docx() call, also when the paragraph holds a text placeholder.
C26_AsStated ==
    [][op' \in {"generate", "export_docx"} =>
        \A i \in 1..Len(AllParas(document)) :
           SignaturePassed(i) =>
              /\ PicturePaths(AllParas(document)[i]) # <<>>
              /\ PicturePaths(AllParas(document')[i])
                    = PicturePaths(AllParas(document)[i])
    ]_vars

(***************************************************************************)
(* document_control/views.py, the approval workflow on one document: the   *)
(* rows of GeneratedDocumentModel and DocumentSignatoryModel, and approve  *)
(* requests handled by concurrent workers.  The database runs in           *)
(* autocommit mode (no ATOMIC_REQUESTS, no transaction.atomic in the       *)
(* views): every ORM call is one step.                                     *)
(***************************************************************************)
MaxSignatories == 2        \* signatory records of the document
MaxApproveRequests == 3    \* approve requests sent in all
MaxCreateRequests == 1     \* create requests sent in all
ApprovalUsers == {"u1", "u2"}
ApprovalWorkers == {1, 2}

ApprovalState == approval[1]

\* the rows as lines 406-422 write them: one pending record per assignment,
\* signatories_count their number, status 'pending_approval'; without an
\* assignment the row of serializers/generated_document.py, line 213
DocumentRow(n) ==
    [status |-> IF n > 0 THEN "pending_approval" ELSE "draft",
     signatories_count |-> n,
     signed_count |-> 0]

SignatoryRows(users) ==
    [k \in 1..Len(users) |-> [signatory |-> users[k], status |-> "pending"]]

IdleApprover == [pc |-> "idle", user |-> "", document |-> DocumentRow(0),
                 signatory |-> 0]

\* models.py, line 115-117
IsFullySigned(row) ==
    row.signatories_count > 0
    /\ row.signed_count >= row.signatories_count

\* DocumentSignatoryModel.objects.filter(document=document, status='pending')
PendingRows(signatories) ==
    {k \in 1..Len(signatories) : signatories[k].status = "pending"}

\* the count that lets every approval through
PendingCount_Zero(signatories) == 0

\* lines 122-125
PendingCount(signatories) == Cardinality(PendingRows(signatories))

ApprovalStep(w, worker, row, signatories, responses) ==
    /\ approval' = Some([ApprovalState EXCEPT !.workers[w] = worker,
                                              !.document = row,
                                              !.signatories = signatories,
                                              !.responses = responses])
    /\ UNCHANGED <<coreVars, rate, login>>

Respond(user, code) == Append(ApprovalState.responses, [user |-> user, status |-> code])

\* lines 386-388 and 438-443: serializer.save(user=request.user) hands
\* validated_data with the key 'user' to Create.create, whose
\* objects.create(user=user, status='draft', **validated_data) raises
\* TypeError (serializers/generated_document.py, 208-220); the view answers
\* 500 and nothing is stored
DocumentCreate ==
    /\ approval # None
    /\ ApprovalState.creates < MaxCreateRequests
    /\ approval' = Some([ApprovalState EXCEPT
                           !.creates = @ + 1,
                           !.responses = Append(@, [user |-> "", status |-> 500])])
    /\ UNCHANGED <<coreVars, rate, login>>

\* lines 62-63: get_object() reads the document row
ApproveBegin(w, user) ==
    /\ approval # None
    /\ ApprovalState.workers[w].pc = "idle"
    /\ ApprovalState.begun < MaxApproveRequests
    /\ approval' = Some([ApprovalState EXCEPT
                           !.workers[w] = [IdleApprover EXCEPT
                                             !.pc = "find", !.user = user,
                                             !.document = ApprovalState.document],
                           !.begun = @ + 1])
    /\ UNCHANGED <<coreVars, rate, login>>

\* lines 66-111: objects.get() of the user's pending record (403 without
\* one; MultipleObjectsReturned, not caught, with several), then the
\* serializer, PIN, 2FA and signature file checks (400)
ApproveFind(w, checks_pass) ==
    /\ approval # None
    /\ ApprovalState.workers[w].pc = "find"
    /\ LET me == ApprovalState.workers[w]
           mine == {k \in PendingRows(ApprovalState.signatories) :
                       ApprovalState.signatories[k].signatory = me.user}
       IN IF mine = {}
          THEN ApprovalStep(w, IdleApprover, ApprovalState.document,
                            ApprovalState.signatories, Respond(me.user, 403))
          ELSE IF Cardinality(mine) > 1
          THEN ApprovalStep(w, IdleApprover, ApprovalState.document,
                            ApprovalState.signatories, Respond(me.user, 500))
          ELSE IF ~checks_pass
          THEN ApprovalStep(w, IdleApprover, ApprovalState.document,
                            ApprovalState.signatories, Respond(me.user, 400))
          ELSE ApprovalStep(w, [me EXCEPT !.pc = "save_signatory",
                                          !.signatory = CHOOSE k \in mine : TRUE],
                            ApprovalState.document, ApprovalState.signatories,
                            ApprovalState.responses)

\* lines 115-117
ApproveSaveSignatory(w) ==
    /\ approval # None
    /\ ApprovalState.workers[w].pc = "save_signatory"
    /\ LET me == ApprovalState.workers[w]
       IN ApprovalStep(w, [me EXCEPT !.pc = "count"], ApprovalState.document,
                       [ApprovalState.signatories EXCEPT
                           ![me.signatory].status = "approved"],
                       ApprovalState.responses)

\* lines 122-127, and 135-144 when a record is still pending
ApproveCount(w) ==
    /\ approval # None
    /\ ApprovalState.workers[w].pc = "count"
    /\ LET me == ApprovalState.workers[w]
       IN IF PendingCount(ApprovalState.signatories) = 0
          THEN ApprovalStep(w, [me EXCEPT !.pc = "save_document"],
                            ApprovalState.document, ApprovalState.signatories,
                            ApprovalState.responses)
          ELSE ApprovalStep(w, IdleApprover, ApprovalState.document,
                            ApprovalState.signatories, Respond(me.user, 200))

\* lines 129-144: document.save() writes every field of the object read at
\* line 63
ApproveSaveDocument(w) ==
    /\ approval # None
    /\ ApprovalState.workers[w].pc = "save_document"
    /\ LET me == ApprovalState.workers[w]
       IN ApprovalStep(w, IdleApprover, [me.document EXCEPT !.status = "approved"],
                       ApprovalState.signatories, Respond(me.user, 200))

InitApproval ==
    /\ \E users \in SeqsUpTo(ApprovalUsers, MaxSignatories) :
          approval = Some([document |-> DocumentRow(Len(users)),
                           signatories |-> SignatoryRows(users),
                           workers |-> [w \in ApprovalWorkers |-> IdleApprover],
                           begun |-> 0,
                           creates |-> 0,
                           responses |-> <<>>])
    /\ rate = None /\ login = None
    /\ template = EmptyDoc
    /\ GenIdle
    /\ ParseIdle
    /\ ExportIdle /\ ParsersIdle /\ HtmlIdle /\ PreviewIdle

NextApproval ==
    \/ DocumentCreate
    \/ \E w \in ApprovalWorkers, user \in ApprovalUsers : ApproveBegin(w, user)
    \/ \E w \in ApprovalWorkers, checks_pass \in BOOLEAN : ApproveFind(w, checks_pass)
    \/ \E w \in ApprovalWorkers : ApproveSaveSignatory(w)
    \/ \E w \in ApprovalWorkers : ApproveCount(w)
    \/ \E w \in ApprovalWorkers : ApproveSaveDocument(w)

SpecApproval == InitApproval /\ [][NextApproval]_vars

\* the users whose approve request has been answered 200
Completed ==
    {ApprovalState.responses[k].user :
        k \in {j \in 1..Len(ApprovalState.responses) :
                  ApprovalState.responses[j].status = 200}}

Assigned ==
    {ApprovalState.signatories[k].signatory : k \in 1..Len(ApprovalState.signatories)}

\* C28: a document with at least one signatory has status 'approved' only
\* when none of its signatory records is pending, and once every assigned
\* signatory has completed the approve operation, in any order or
\* concurrently, the document's status is 'approved'.
C28_ApprovedWhenAllSigned ==
    (approval # None /\ ApprovalState.signatories # <<>>) =>
        /\ ApprovalState.document.status = "approved"
              => PendingRows(ApprovalState.signatories) = {}
        /\ Assigned \subseteq Completed
              => ApprovalState.document.status = "approved"

\* two signatories have approved, their requests handled at the same time
C28_Witness ==
    /\ approval # None
    /\ Len(ApprovalState.signatories) = 2
    /\ Assigned = {"u1", "u2"}
    /\ Completed = {"u1", "u2"}
    /\ Len(ApprovalState.responses) = 2
    /\ ApprovalState.document.status = "approved"

\* models.py, lines 157-162: the declared values of a signatory's status
SignatoryStatuses == {"pending", "signed"}

\* C29: after any sequence of document creations and approvals, signed_count
\* equals the number of signatory records that are no longer pending and
\* never exceeds signatories_count, is_fully_signed() is true exactly when
\* the document has signatories and none of them is pending, and every
\* signatory record's status is one of 'pending' and 'signed'.
C29_AsStated ==
    approval # None =>
        LET row == ApprovalState.document
            signatories == ApprovalState.signatories
            done == Len(signatories) - PendingCount(signatories)
        IN /\ row.signed_count = done
           /\ row.signed_count <= row.signatories_count
           /\ IsFullySigned(row) <=> (signatories # <<>> /\ PendingRows(signatories) = {})
           /\ \A k \in 1..Len(signatories) : signatories[k].status \in SignatoryStatuses

\* the counter alone: it never leaves 0
C29_CounterStaysZero == approval # None => ApprovalState.document.signed_count = 0

(***************************************************************************)
(* user_control: the lockout fields of one account and the login requests  *)
(* for it, handled by concurrent workers.  Time is counted in minutes; each *)
(* query and each save() of the view is one step.                          *)
(***************************************************************************)
MaxFailedLogins == 5       \* models.py, line 128
LockMinutes == 30          \* models.py, line 130
MaxLoginTime == 61         \* the clock stops here
MaxLoginRequests == 7      \* login requests sent in all
LoginWorkers == {1, 2}

LoginState == login[1]

\* models.py, lines 56-58: the defaults of a new account
NewUser == [failed_login_attempts |-> 0, is_locked |-> FALSE, lock_expiry |-> None]

IdleLogin == [pc |-> "idle", user |-> NewUser, password_ok |-> FALSE]

\* models.py, lines 123-131 (the object's fields before save())
IncrementFailedLogin(user, now) ==
    LET attempts == user.failed_login_attempts + 1
    IN IF attempts >= MaxFailedLogins
       THEN [failed_login_attempts |-> attempts, is_locked |-> TRUE,
             lock_expiry |-> Some(now + LockMinutes)]
       ELSE [user EXCEPT !.failed_login_attempts = attempts]

\* models.py, lines 133-140
ResetFailedLogin(user) == NewUser

\* models.py, line 146
LockExpired(user, now) ==
    user.is_locked /\ user.lock_expiry # None /\ now > user.lock_expiry[1]

\* models.py, lines 142-151: the object's fields after the call
CheckAccountStatus(user, now) == IF LockExpired(user, now) THEN NewUser ELSE user

LoginStep(w, worker, row, step, streak) ==
    /\ login' = Some([LoginState EXCEPT
                        !.workers[w] = worker,
                        !.user = row,
                        !.streak = streak,
                        !.last = [step |-> step, time |-> LoginState.now,
                                  before |-> LoginState.user, after |-> row]])
    /\ UNCHANGED <<coreVars, rate, approval>>

\* views.py, line 97: UserModel.objects.get(email=email)
LoginGet(w, password_ok) ==
    /\ login # None
    /\ LoginState.workers[w].pc = "idle"
    /\ LoginState.requests < MaxLoginRequests
    /\ login' = Some([LoginState EXCEPT
                        !.workers[w] = [pc |-> "check", user |-> LoginState.user,
                                        password_ok |-> password_ok],
                        !.requests = @ + 1])
    /\ UNCHANGED <<coreVars, rate, approval>>

\* views.py, lines 103-113: check_account_status() on the object read at
\* line 97; it saves the object when the lock has expired
LoginCheck(w) ==
    /\ login # None
    /\ LoginState.workers[w].pc = "check"
    /\ LET me == LoginState.workers[w]
           checked == CheckAccountStatus(me.user, LoginState.now)
       IN IF checked.is_locked
          THEN LoginStep(w, IdleLogin, LoginState.user, "refused", LoginState.streak)
          ELSE IF LockExpired(me.user, LoginState.now)
          THEN LoginStep(w, [me EXCEPT !.pc = "authenticate", !.user = checked],
                         checked, "unlocked", 0)
          ELSE LoginStep(w, [me EXCEPT !.pc = "authenticate"],
                         LoginState.user, "passed", LoginState.streak)

\* views.py, lines 131-178: authenticate(), then reset_failed_login() or
\* increment_failed_login() on the object read at line 97, each ending in
\* save() of every field
LoginAuthenticate(w) ==
    /\ login # None
    /\ LoginState.workers[w].pc = "authenticate"
    /\ LET me == LoginState.workers[w]
       IN IF me.password_ok
          THEN LoginStep(w, IdleLogin, ResetFailedLogin(me.user), "success", 0)
          ELSE LoginStep(w, IdleLogin, IncrementFailedLogin(me.user, LoginState.now),
                         "invalid", LoginState.streak + 1)

\* the clock moves on to the end of a lock begun now, or a minute past it
LoginTick(minutes) ==
    /\ login # None
    /\ LoginState.now + minutes <= MaxLoginTime
    /\ login' = Some([LoginState EXCEPT !.now = @ + minutes])
    /\ UNCHANGED <<coreVars, rate, approval>>

InitLogin ==
    /\ login = Some([user |-> NewUser,
                     now |-> 0,
                     workers |-> [w \in LoginWorkers |-> IdleLogin],
                     requests |-> 0,
                     streak |-> 0,
                     last |-> [step |-> "none", time |-> 0,
                               before |-> NewUser, after |-> NewUser]])
    /\ rate = None /\ approval = None
    /\ template = EmptyDoc
    /\ GenIdle
    /\ ParseIdle
    /\ ExportIdle /\ ParsersIdle /\ HtmlIdle /\ PreviewIdle

NextLogin ==
    \/ \E w \in LoginWorkers, password_ok \in BOOLEAN : LoginGet(w, password_ok)
    \/ \E w \in LoginWorkers : LoginCheck(w)
    \/ \E w \in LoginWorkers : LoginAuthenticate(w)
    \/ \E minutes \in {LockMinutes, LockMinutes + 1} : LoginTick(minutes)

SpecLogin == InitLogin /\ [][NextLogin]_vars

\* the stored account is locked and its lock has not expired
LockedAt(user, now) ==
    user.is_locked /\ (user.lock_expiry = None \/ now <= user.lock_expiry[1])

\* C30: after 5 consecutive failed password attempts the account is locked
\* with a lock expiry 30 minutes later; until the expiry passes no login for
\* the account succeeds and refused attempts leave the failure counter
\* alone; the first attempt after the expiry unlocks the account and resets
\* the counter to 0, and a successful login resets it to 0.
C30_AsStated ==
    login # None =>
        LET last == LoginState.last
        IN /\ (last.step = "invalid" /\ LoginState.streak >= MaxFailedLogins)
                 => /\ last.after.is_locked
                    /\ last.after.lock_expiry = Some(last.time + LockMinutes)
           /\ last.step = "success" => ~LockedAt(last.before, last.time)
           /\ last.step = "refused"
                 => /\ last.after = last.before
                    /\ LockedAt(last.before, last.time)
           /\ (last.step \in {"passed", "unlocked", "refused"}
                  /\ LockExpired(last.before, last.time))
                 => /\ ~last.after.is_locked
                    /\ last.after.failed_login_attempts = 0
           /\ last.step = "success" => last.after.failed_login_attempts = 0

====
